---- MODULE Spec2Model ----
(***************************************************************************)
(* Model of the NBA pressers digest pipeline (src/scripts/*.py).           *)
(*                                                                         *)
(* Text is modelled as sequences of one-character strings, so substring    *)
(* search, splitting on ':' and integer parsing are computed character by  *)
(* character as the Python code does.  Times are whole seconds.            *)
(***************************************************************************)
EXTENDS Integers, Sequences, FiniteSets, TLC

VARIABLES
    \* ingest.is_press_conference applied to one title
    kw_title, kw_nfrags, kw_pc, kw_result,
    \* score_moments.validate_moment applied to one moment
    vm_moment, vm_duration, vm_pc, vm_result,
    \* qa_checks.run_qa_checks applied to a clip list and a video file
    qa_clips, qa_video, qa_pc, qa_results,
    \* transcribe.process_videos: the arguments, the loop position, the
    \* locals results and whisper_count, and a log of the external calls
    tr_videos, tr_max_whisper, tr_i, tr_results, tr_whisper_count,
    tr_whisper_attempts, tr_log,
    \* the run: the environment of the LLM stage, the transcripts handed to
    \* it, what the LLM answers for each of them, the position in the run,
    \* and the values the stages produce
    env, transcripts, llm_responses, max_clips, pc, provider, sc_i,
    all_moments, top_moments, cl_i, processed_clips, cl_log, digest,
    metadata, qa_report, review_summary,
    \* score_moments.timestamp_to_seconds applied to one timestamp, and the
    \* result formatted back as the transcript formatter prints a time
    ts_text, ts_form, ts_fields, ts_pc, ts_result, ts_back,
    \* ingest.get_new_videos: the channels, what the feed server answers for
    \* each, the loop position, the local new_videos, the channels whose
    \* feed was requested (one entry per request), and the position in the
    \* function
    in_channels, in_feeds, in_i, in_new_videos, in_fetches, in_pc,
    \* transcribe.parse_vtt_to_segments applied to one text: the argument,
    \* the locals lines, i, start and duration (vt_cue), text_lines and
    \* segments, the position in the function, the value returned, and the
    \* line indexes each loop has examined
    vt_content, vt_lines, vt_i, vt_cue, vt_text_lines, vt_segments, vt_pc,
    vt_result, vt_examined

kwVars == <<kw_title, kw_nfrags, kw_pc, kw_result>>
vmVars == <<vm_moment, vm_duration, vm_pc, vm_result>>
qaVars == <<qa_clips, qa_video, qa_pc, qa_results>>
trVars == <<tr_videos, tr_max_whisper, tr_i, tr_results, tr_whisper_count,
           tr_whisper_attempts, tr_log>>
plVars == <<env, transcripts, llm_responses, max_clips, pc, provider, sc_i,
           all_moments, top_moments, cl_i, processed_clips, cl_log, digest,
           metadata, qa_report, review_summary>>
tsVars == <<ts_text, ts_form, ts_fields, ts_pc, ts_result, ts_back>>
inVars == <<in_channels, in_feeds, in_i, in_new_videos, in_fetches, in_pc>>
vtVars == <<vt_content, vt_lines, vt_i, vt_cue, vt_text_lines, vt_segments,
           vt_pc, vt_result, vt_examined>>
vars == <<kwVars, vmVars, qaVars, trVars, plVars, tsVars, inVars, vtVars>>

\* the variables each group of actions leaves alone
notKw == <<vmVars, qaVars, trVars, plVars, tsVars, inVars, vtVars>>
notVm == <<kwVars, qaVars, trVars, plVars, tsVars, inVars, vtVars>>
notQa == <<kwVars, vmVars, trVars, plVars, tsVars, inVars, vtVars>>
notTr == <<kwVars, vmVars, qaVars, plVars, tsVars, inVars, vtVars>>
notPl == <<kwVars, vmVars, qaVars, trVars, tsVars, inVars, vtVars>>
notTs == <<kwVars, vmVars, qaVars, trVars, plVars, inVars, vtVars>>
notIn == <<kwVars, vmVars, qaVars, trVars, plVars, tsVars, vtVars>>
notVt == <<kwVars, vmVars, qaVars, trVars, plVars, tsVars, inVars>>

(***************************************************************************)
(* Bounds of the model                                                     *)
(***************************************************************************)
MaxTitleFrags == 3
MaxMinute == 2
MaxQaClips == 4
MaxDiversityClips == 10
MaxTrVideos == 2
MaxWhisperLimit == 1
MaxVideos == 2
MaxMomentsPerResponse == 2
MaxClipsArg == 3
MaxMetaClips == 3
MaxTsMinute == 12
MaxTsHour == 2
MaxChannels == 2
MaxEntries == 2

(***************************************************************************)
(* Text helpers (Python str operations)                                    *)
(***************************************************************************)
UpperChars == <<"A","B","C","D","E","F","G","H","I","J","K","L","M",
                "N","O","P","Q","R","S","T","U","V","W","X","Y","Z">>
LowerChars == <<"a","b","c","d","e","f","g","h","i","j","k","l","m",
                "n","o","p","q","r","s","t","u","v","w","x","y","z">>

\* str.lower() on one character
LowerChar(c) ==
    IF \E i \in 1..26 : UpperChars[i] = c
    THEN LowerChars[CHOOSE i \in 1..26 : UpperChars[i] = c]
    ELSE c

\* str.lower()
Lower(s) == [i \in 1..Len(s) |-> LowerChar(s[i])]

\* the Python test "kw in s" on strings
Contains(kw, s) ==
    \E i \in 1..(Len(s) - Len(kw) + 1) : SubSeq(s, i, i + Len(kw) - 1) = kw

(***************************************************************************)
(* ingest.py: keyword classification of titles                             *)
(***************************************************************************)
PRESS_CONFERENCE_KEYWORDS ==
    << <<"p","r","e","s","s"," ","c","o","n","f","e","r","e","n","c","e">>,
       <<"p","o","s","t","g","a","m","e">>,
       <<"p","o","s","t","-","g","a","m","e">>,
       <<"p","o","s","t"," ","g","a","m","e">>,
       <<"p","r","e","g","a","m","e">>,
       <<"p","r","e","-","g","a","m","e">>,
       <<"p","r","e"," ","g","a","m","e">>,
       <<"m","e","d","i","a"," ","a","v","a","i","l","a","b","i","l","i","t","y">>,
       <<"i","n","t","e","r","v","i","e","w">>,
       <<"p","r","e","s","s","e","r">>,
       <<"t","a","l","k","s"," ","t","o"," ","m","e","d","i","a">>,
       <<"s","p","e","a","k","s"," ","t","o"," ","m","e","d","i","a">>,
       <<"t","a","l","k","s">>,
       <<"s","p","e","a","k","s">>,
       <<"r","e","a","c","t","s">>,
       <<"d","i","s","c","u","s","s","e","s">>,
       <<"a","d","d","r","e","s","s","e","s">>,
       <<"s","h","o","o","t","a","r","o","u","n","d">> >>

EXCLUDE_KEYWORDS ==
    << <<"h","i","g","h","l","i","g","h","t","s">>,
       <<"f","u","l","l"," ","g","a","m","e">>,
       <<"g","a","m","e"," ","r","e","c","a","p">>,
       <<"t","o","p"," ","p","l","a","y","s">>,
       <<"b","e","s","t"," ","p","l","a","y","s">>,
       <<"b","u","z","z","e","r"," ","b","e","a","t","e","r">>,
       <<"a","l","l","-","a","c","c","e","s","s">>,
       <<"b","e","h","i","n","d"," ","t","h","e"," ","s","c","e","n","e","s">>,
       <<"m","i","x">>,
       <<"h","y","p","e"," ","v","i","d","e","o">>,
       <<"p","r","o","m","o">>,
       <<"t","r","a","i","l","e","r">>,
       <<"d","u","n","k">>,
       <<"b","l","o","c","k">>,
       <<"a","s","s","i","s","t">> >>

\* is_press_conference with the two loops swapped (include keywords first)
is_press_conference_include_first(title) ==
    LET title_lower == Lower(title) IN
    IF \E k \in 1..Len(PRESS_CONFERENCE_KEYWORDS) :
           Contains(PRESS_CONFERENCE_KEYWORDS[k], title_lower)
    THEN TRUE
    ELSE FALSE

is_press_conference(title) ==
    LET title_lower == Lower(title) IN
    IF \E k \in 1..Len(EXCLUDE_KEYWORDS) :
           Contains(EXCLUDE_KEYWORDS[k], title_lower)
    THEN FALSE
    ELSE IF \E k \in 1..Len(PRESS_CONFERENCE_KEYWORDS) :
                Contains(PRESS_CONFERENCE_KEYWORDS[k], title_lower)
         THEN TRUE
         ELSE FALSE

\* pieces from which the titles of the model are concatenated
TitleFragments ==
    { <<"T","a","l","k","s">>,
      <<"P","r","e","s","s","e","r">>,
      <<"M","I","X">>,
      <<"m","i">>,
      <<"x">>,
      <<"d","u","n","k">>,
      <<"C","o","a","c","h">>,
      <<" ">> }

KwIdle ==
    /\ kw_title = <<>>
    /\ kw_nfrags = 0
    /\ kw_pc = "idle"
    /\ kw_result = FALSE

KwInit ==
    /\ kw_title = <<>>
    /\ kw_nfrags = 0
    /\ kw_pc = "build"
    /\ kw_result = FALSE

\* the feed supplies a title: one more fragment of it
AddTitleFragment ==
    /\ kw_pc = "build"
    /\ kw_nfrags < MaxTitleFrags
    /\ \E f \in TitleFragments : kw_title' = kw_title \o f
    /\ kw_nfrags' = kw_nfrags + 1
    /\ UNCHANGED <<kw_pc, kw_result>>
    /\ UNCHANGED notKw

ClassifyTitle ==
    /\ kw_pc = "build"
    /\ kw_result' = is_press_conference(kw_title)
    /\ kw_pc' = "done"
    /\ UNCHANGED <<kw_title, kw_nfrags>>
    /\ UNCHANGED notKw

(***************************************************************************)
(* score_moments.py: timestamps                                            *)
(***************************************************************************)
DigitChars == <<"0","1","2","3","4","5","6","7","8","9">>

IsDigit(c) == \E i \in 1..10 : DigitChars[i] = c

DigitVal(c) == (CHOOSE i \in 1..10 : DigitChars[i] = c) - 1

RECURSIVE DigitsValue(_)
DigitsValue(p) ==
    IF Len(p) = 0 THEN 0
    ELSE 10 * DigitsValue(SubSeq(p, 1, Len(p) - 1)) + DigitVal(p[Len(p)])

\* the strings int() accepts, over the alphabet of the model: an optional
\* minus sign and at least one digit
IsIntLiteral(p) ==
    /\ Len(p) > 0
    /\ LET body == IF p[1] = "-" THEN Tail(p) ELSE p IN
       /\ Len(body) > 0
       /\ \A i \in 1..Len(body) : IsDigit(body[i])

IntValue(p) == IF p[1] = "-" THEN 0 - DigitsValue(Tail(p)) ELSE DigitsValue(p)

\* float("nan"): the float that is no number.  It stands outside the times
\* of the model; the operators below compute with it as Python does.
NaN == 0 - 1000000

\* the texts float() reads as NaN, over the alphabet of the model
IsNaNLiteral(p) == p = <<"n","a","n">> \/ p = <<"-","n","a","n">>

\* the strings float() accepts, over the alphabet of the model, which has no
\* '.': the strings int() accepts, and "nan"
IsFloatLiteral(p) == IsIntLiteral(p) \/ IsNaNLiteral(p)

FloatValue(p) == IF IsNaNLiteral(p) THEN NaN ELSE IntValue(p)

\* a + b and a - b of floats: NaN when an operand is NaN
FloatAdd(a, b) == IF a = NaN \/ b = NaN THEN NaN ELSE a + b
FloatSub(a, b) == IF a = NaN \/ b = NaN THEN NaN ELSE a - b

\* a < b and a <= b of floats: false when an operand is NaN
FloatLess(a, b) == a # NaN /\ b # NaN /\ a < b
FloatLessEq(a, b) == a # NaN /\ b # NaN /\ a <= b

\* str.split(':')
RECURSIVE SplitColon(_)
SplitColon(s) ==
    IF \A i \in 1..Len(s) : s[i] # ":"
    THEN <<s>>
    ELSE LET i == CHOOSE j \in 1..Len(s) :
                     /\ s[j] = ":"
                     /\ \A k \in 1..(j - 1) : s[k] # ":"
         IN <<SubSeq(s, 1, i - 1)>> \o SplitColon(SubSeq(s, i + 1, Len(s)))

\* timestamp_to_seconds raises ValueError: a part that is converted is not a
\* number (int() converts the leading parts, float() the last one).  Strings
\* with one part or more than three are not converted.
timestamp_raises(timestamp) ==
    LET parts == SplitColon(timestamp) IN
    /\ Len(parts) \in {2, 3}
    /\ \/ \E i \in 1..(Len(parts) - 1) : ~IsIntLiteral(parts[i])
       \/ ~IsFloatLiteral(parts[Len(parts)])

\* timestamp_to_seconds reading a three-part timestamp as minutes, seconds
\* and a remainder it drops
timestamp_to_seconds_no_hours(timestamp) ==
    LET parts == SplitColon(timestamp) IN
    IF Len(parts) \in {2, 3}
    THEN IntValue(parts[1]) * 60 + IntValue(parts[2])
    ELSE 0

timestamp_to_seconds(timestamp) ==
    LET parts == SplitColon(timestamp) IN
    IF Len(parts) = 2
    THEN FloatAdd(IntValue(parts[1]) * 60, FloatValue(parts[2]))
    ELSE IF Len(parts) = 3
         THEN FloatAdd(IntValue(parts[1]) * 3600 + IntValue(parts[2]) * 60,
                       FloatValue(parts[3]))
         ELSE 0

\* str(n) for an integer n
RECURSIVE NatToStr(_)
NatToStr(n) ==
    IF n < 10 THEN <<DigitChars[n + 1]>>
    ELSE NatToStr(n \div 10) \o <<DigitChars[(n % 10) + 1]>>

IntToStr(n) == IF n < 0 THEN <<"-">> \o NatToStr(0 - n) ELSE NatToStr(n)

\* the format spec ":02d" for a value in 0..59
Pad2(n) == IF n < 10 THEN <<"0">> \o NatToStr(n) ELSE NatToStr(n)

\* the transcript formatter without the padding of the seconds
format_minutes_seconds_unpadded(start) ==
    LET minutes == start \div 60
        seconds == start % 60
    IN IntToStr(minutes) \o <<":">> \o IntToStr(seconds)

\* the timestamp format_transcript_for_scoring shows the LLM for a segment
\* starting at second start: f"{minutes}:{seconds:02d}"
format_minutes_seconds(start) ==
    LET minutes == start \div 60
        seconds == start % 60
    IN IntToStr(minutes) \o <<":">> \o Pad2(seconds)

(***************************************************************************)
(* score_moments.py: validate_moment                                       *)
(*                                                                         *)
(* A moment is a function from the keys present in the JSON object to      *)
(* their values.  The result is "True", "False", or "raise" when a         *)
(* timestamp conversion raises.                                            *)
(***************************************************************************)
required_fields == <<"start_time", "end_time", "headline", "score">>

MIN_DURATION == 10
MAX_DURATION == 90
END_BUFFER == 10

\* validate_moment with the bounds its comment states (15-60 seconds)
validate_moment_15_60(moment, transcript_duration) ==
    IF \E f \in 1..Len(required_fields) : required_fields[f] \notin DOMAIN moment
    THEN "False"
    ELSE IF timestamp_raises(moment["start_time"])
            \/ timestamp_raises(moment["end_time"])
    THEN "raise"
    ELSE LET start == timestamp_to_seconds(moment["start_time"])
             end == timestamp_to_seconds(moment["end_time"])
             duration == FloatSub(end, start)
         IN IF FloatLessEq(end, start) THEN "False"
            ELSE IF FloatLess(start, 0)
                    \/ FloatLess(transcript_duration + END_BUFFER, end)
                 THEN "False"
                 ELSE IF FloatLess(duration, 15) \/ FloatLess(60, duration)
                      THEN "False"
                      ELSE "True"

validate_moment(moment, transcript_duration) ==
    IF \E f \in 1..Len(required_fields) : required_fields[f] \notin DOMAIN moment
    THEN "False"
    ELSE IF timestamp_raises(moment["start_time"])
            \/ timestamp_raises(moment["end_time"])
    THEN "raise"
    ELSE LET start == timestamp_to_seconds(moment["start_time"])
             end == timestamp_to_seconds(moment["end_time"])
             duration == FloatSub(end, start)
         IN IF FloatLessEq(end, start) THEN "False"
            ELSE IF FloatLess(start, 0)
                    \/ FloatLess(transcript_duration + END_BUFFER, end)
                 THEN "False"
                 ELSE IF FloatLess(duration, MIN_DURATION)
                         \/ FloatLess(MAX_DURATION, duration)
                      THEN "False"
                      ELSE "True"

\* seconds values of the formatted timestamps of the model
SecondInputs == {0, 5, 10, 25, 40, 45}

TS_0_NAN == <<"0",":","n","a","n">>

\* timestamps an LLM can answer with that the transcript formatter never
\* prints: H:MM:SS, a padded minute, a negative minute, no colon, no
\* number, seconds that float() reads as NaN
OtherTimestamps ==
    { <<"1",":","0","2",":","0","3">>,
      <<"0","0",":","2","5">>,
      <<"-","1",":","3","0">>,
      <<"9","0">>,
      <<"x",":","1","0">>,
      TS_0_NAN }

TimestampInputs ==
    { format_minutes_seconds(60 * m + sec) :
          m \in 0..MaxMinute, sec \in SecondInputs }
    \cup OtherTimestamps

TS_0_05 == <<"0",":","0","5">>
TS_0_10 == <<"0",":","1","0">>
TS_0_25 == <<"0",":","2","5">>
TS_1_45 == <<"1",":","4","5">>

\* a moment with all the keys the LLM is asked for
FullMoment(start_time, end_time, score) ==
    [ start_time |-> start_time,
      end_time |-> end_time,
      headline |-> <<"H">>,
      why_it_matters |-> <<"w">>,
      score |-> score,
      category |-> "insight" ]

\* the moment without key k
WithoutKey(moment, k) == [f \in (DOMAIN moment) \ {k} |-> moment[f]]

MomentInputs ==
    LET full == { FullMoment(st, en, 7) :
                      st \in TimestampInputs, en \in TimestampInputs }
    IN full \cup { WithoutKey(m, required_fields[f]) :
                       m \in full, f \in 1..Len(required_fields) }

\* transcript durations: shorter than some moments, longer, the default
DurationInputs == {20, 100, 3600}

VmIdle ==
    /\ vm_moment = [headline |-> <<"H">>]
    /\ vm_duration = 0
    /\ vm_pc = "idle"
    /\ vm_result = "none"

VmInit ==
    /\ vm_moment \in MomentInputs
    /\ vm_duration \in DurationInputs
    /\ vm_pc = "call"
    /\ vm_result = "none"

ValidateMoment ==
    /\ vm_pc = "call"
    /\ vm_result' = validate_moment(vm_moment, vm_duration)
    /\ vm_pc' = "done"
    /\ UNCHANGED <<vm_moment, vm_duration>>
    /\ UNCHANGED notVm

(***************************************************************************)
(* qa_checks.py                                                            *)
(*                                                                         *)
(* A clip is a function from the keys of the dict to their values; team,   *)
(* video_id and source_url are strings, the headline is a character        *)
(* sequence.  A message of a warnings list is a record: the clip number    *)
(* (0 when the message is not about one clip), its text and its arguments. *)
(***************************************************************************)
\* dict.get(k, default)
Get(d, k, default) == IF k \in DOMAIN d THEN d[k] ELSE default

Msg(clip, text, arg, n, of) ==
    [clip |-> clip, text |-> text, arg |-> arg, n |-> n, of |-> of]

\* one list element when the condition of the "if" holds
When(cond, msg) == IF cond THEN <<msg>> ELSE <<>>

RECURSIVE Flatten(_)
Flatten(lists) ==
    IF Len(lists) = 0 THEN <<>> ELSE Head(lists) \o Flatten(Tail(lists))

\* "not clip.get(field)" for the four required fields of a clip
FieldMissing(clip, field) ==
    IF field = "headline"
    THEN Len(Get(clip, "headline", <<>>)) = 0
    ELSE Get(clip, field, "") = ""

qa_required == <<"video_id", "team", "headline", "source_url">>

ClipAccuracyWarnings(clip, i) ==
    LET headline == Get(clip, "headline", <<>>)
        duration == Get(clip, "duration", 0)
        score == Get(clip, "score", 0)
    IN When(Len(headline) > 60, Msg(i, "Headline too long", "", Len(headline), 0))
       \o When(Len(headline) < 5, Msg(i, "Headline too short", "", 0, 0))
       \o When(FloatLess(duration, 10), Msg(i, "Very short", "", duration, 0))
       \o When(FloatLess(90, duration), Msg(i, "Very long", "", duration, 0))
       \o When(score < 5, Msg(i, "Low score", "", score, 10))
       \o Flatten([f \in 1..Len(qa_required) |->
                     When(FieldMissing(clip, qa_required[f]),
                          Msg(i, "Missing", qa_required[f], 0, 0))])

check_clip_accuracy(clips) ==
    LET warnings == Flatten([i \in 1..Len(clips) |->
                               ClipAccuracyWarnings(clips[i], i)])
    IN [passed |-> Len(warnings) = 0, warnings |-> warnings]

\* the team a clip is counted under
TeamOf(clip) == Get(clip, "team", "Unknown")

\* team_counts[team]
TeamCount(clips, team) ==
    Cardinality({i \in 1..Len(clips) : TeamOf(clips[i]) = team})

\* the keys of team_counts in insertion order
TeamOrder(clips) ==
    LET first == SelectSeq([i \in 1..Len(clips) |-> i],
                     LAMBDA i : \A j \in 1..(i - 1) :
                                   TeamOf(clips[j]) # TeamOf(clips[i]))
    IN [k \in 1..Len(first) |-> TeamOf(clips[first[k]])]

\* check_content_diversity with the over-representation test applied to
\* lists of more than 5 clips only
check_content_diversity_over_5(clips) ==
    LET total == Len(clips)
        teams == TeamOrder(clips)
        over == Flatten([k \in 1..Len(teams) |->
                   When(total > 5 /\ 2 * TeamCount(clips, teams[k]) > total,
                        Msg(0, "Over-represented", teams[k],
                            TeamCount(clips, teams[k]), total))])
        warnings == over \o When(total > 5 /\ Len(teams) < 3,
                                 Msg(0, "Low diversity", "", Len(teams), total))
    IN [passed |-> Len(warnings) = 0, warnings |-> warnings]

\* "count > total * 0.5" is 2 * count > total on integers
check_content_diversity(clips) ==
    LET total == Len(clips)
        teams == TeamOrder(clips)
        over == Flatten([k \in 1..Len(teams) |->
                   When(total > 3 /\ 2 * TeamCount(clips, teams[k]) > total,
                        Msg(0, "Over-represented", teams[k],
                            TeamCount(clips, teams[k]), total))])
        warnings == over \o When(total > 5 /\ Len(teams) < 3,
                                 Msg(0, "Low diversity", "", Len(teams), total))
    IN [passed |-> Len(warnings) = 0, warnings |-> warnings]

TimestampWarnings(clip, i) ==
    LET start == Get(clip, "start_seconds", 0)
        end == Get(clip, "end_seconds", 0)
    IN When(FloatLessEq(end, start), Msg(i, "Invalid timestamps", "", 0, 0))
       \o When(FloatLess(start, 0), Msg(i, "Negative start time", "", 0, 0))

\* check_timestamps failing on an empty list of clips, without a message
check_timestamps_needs_clips(clips) ==
    LET warnings == Flatten([i \in 1..Len(clips) |->
                               TimestampWarnings(clips[i], i)])
    IN [passed |-> Len(warnings) = 0 /\ Len(clips) > 0, warnings |-> warnings]

check_timestamps(clips) ==
    LET warnings == Flatten([i \in 1..Len(clips) |->
                               TimestampWarnings(clips[i], i)])
    IN [passed |-> Len(warnings) = 0, warnings |-> warnings]

AttributionWarnings(clip, i) ==
    When(Get(clip, "team", "") = "", Msg(i, "Missing team attribution", "", 0, 0))
    \o When(Get(clip, "source_url", "") = "", Msg(i, "Missing source URL", "", 0, 0))

check_attribution(clips) ==
    LET warnings == Flatten([i \in 1..Len(clips) |->
                               AttributionWarnings(clips[i], i)])
    IN [passed |-> Len(warnings) = 0, warnings |-> warnings]

\* A video is [path, exists, probe, duration, size_mb, streams]: whether a
\* path was passed, whether the file exists, whether ffprobe and the parsing
\* of its output raise ("raise") or not ("ok"), and what ffprobe reports.
VideoFile(path, exists, probe, duration, size_mb, streams) ==
    [path |-> path, exists |-> exists, probe |-> probe,
     duration |-> duration, size_mb |-> size_mb, streams |-> streams]

video_codecs == {"h264", "hevc", "vp9"}

check_video_quality(video) ==
    IF ~video.exists
    THEN [passed |-> FALSE,
          warnings |-> <<Msg(0, "Video file does not exist", "", 0, 0)>>]
    ELSE IF video.probe = "raise"
    THEN [passed |-> FALSE,
          warnings |-> <<Msg(0, "Error checking video", "", 0, 0)>>]
    ELSE [passed |-> TRUE,
          warnings |->
            When(video.duration < 60, Msg(0, "Video very short", "", video.duration, 60))
            \o When(video.duration > 600, Msg(0, "Video very long", "", video.duration, 600))
            \o When(video.size_mb < 1, Msg(0, "File size very small", "", video.size_mb, 0))
            \o When(video.size_mb > 500, Msg(0, "File size very large", "", video.size_mb, 0))
            \o Flatten([k \in 1..Len(video.streams) |->
                  When(video.streams[k].codec_name \in video_codecs
                         /\ video.streams[k].height < 480,
                       Msg(0, "Low resolution", "", video.streams[k].height, 0))])]

\* the checks dict: its keys in the order they are set
QaChecks(video_run, vq, ca, cd, ts, at) ==
    [k \in (IF video_run THEN {"video_quality"} ELSE {})
           \cup {"clip_accuracy", "content_diversity", "timestamps", "attribution"}
       |-> CASE k = "video_quality" -> vq
             [] k = "clip_accuracy" -> ca
             [] k = "content_diversity" -> cd
             [] k = "timestamps" -> ts
             [] OTHER -> at]

\* run_qa_checks where a failed clip-accuracy check fails the run as well
run_qa_checks_accuracy_fails(clips, video) ==
    LET video_run == video.path /\ video.exists
        vq == check_video_quality(video)
        ca == check_clip_accuracy(clips)
        cd == check_content_diversity(clips)
        ts == check_timestamps(clips)
        at == check_attribution(clips)
        warnings == (IF video_run /\ vq.passed THEN vq.warnings ELSE <<>>)
                    \o ca.warnings \o cd.warnings
        errors == (IF video_run /\ ~vq.passed THEN vq.warnings ELSE <<>>)
                  \o (IF ~ts.passed THEN ts.warnings ELSE <<>>)
                  \o (IF ~at.passed THEN at.warnings ELSE <<>>)
    IN [all_passed |-> ~(video_run /\ ~vq.passed) /\ ca.passed /\ ts.passed /\ at.passed,
        warnings |-> warnings,
        errors |-> errors,
        checks |-> QaChecks(video_run, vq, ca, cd, ts, at),
        total_clips |-> Len(clips),
        total_warnings |-> Len(warnings),
        total_errors |-> Len(errors)]

run_qa_checks(clips, video) ==
    LET video_run == video.path /\ video.exists
        vq == check_video_quality(video)
        ca == check_clip_accuracy(clips)
        cd == check_content_diversity(clips)
        ts == check_timestamps(clips)
        at == check_attribution(clips)
        warnings == (IF video_run /\ vq.passed THEN vq.warnings ELSE <<>>)
                    \o ca.warnings \o cd.warnings
        errors == (IF video_run /\ ~vq.passed THEN vq.warnings ELSE <<>>)
                  \o (IF ~ts.passed THEN ts.warnings ELSE <<>>)
                  \o (IF ~at.passed THEN at.warnings ELSE <<>>)
    IN [all_passed |-> ~(video_run /\ ~vq.passed) /\ ts.passed /\ at.passed,
        warnings |-> warnings,
        errors |-> errors,
        checks |-> QaChecks(video_run, vq, ca, cd, ts, at),
        total_clips |-> Len(clips),
        total_warnings |-> Len(warnings),
        total_errors |-> Len(errors)]

\* the value of results before run_qa_checks has run
NoQaResults ==
    [all_passed |-> TRUE, warnings |-> <<>>, errors |-> <<>>,
     checks |-> [k \in {} |-> 0],
     total_clips |-> 0, total_warnings |-> 0, total_errors |-> 0]

HEADLINE_TRADE == <<"T","r","a","d","e"," ","n","e","w","s">>

\* a clip with the keys the scoring and clip stages set
QaClip(video_id, team, source_url, headline, score, start, end) ==
    [ video_id |-> video_id, team |-> team, source_url |-> source_url,
      headline |-> headline, score |-> score,
      start_seconds |-> start, end_seconds |-> end, duration |-> end - start ]

GoodLakersClip == QaClip("v1", "Lakers", "u1", HEADLINE_TRADE, 9, 10, 25)
GoodCelticsClip == QaClip("v2", "Celtics", "u2", HEADLINE_TRADE, 8, 40, 70)

\* clips that pass every check, clips that fail only advisory checks (low
\* score and short headline), and clips that fail the timestamp or the
\* attribution check
QaClipInputs ==
    { GoodLakersClip,
      QaClip("v2", "Celtics", "u2", <<"H","m","m">>, 3, 40, 70),
      QaClip("v1", "Lakers", "u1", HEADLINE_TRADE, 9, 25, 10),
      QaClip("v3", "", "u3", HEADLINE_TRADE, 7, 0, 30),
      WithoutKey(GoodCelticsClip, "source_url") }

\* clips that differ in their team only; the last has no team key
DiversityClipInputs ==
    { GoodLakersClip,
      GoodCelticsClip,
      WithoutKey(QaClip("v3", "", "u3", HEADLINE_TRADE, 7, 0, 30), "team") }

NoVideo == VideoFile(FALSE, FALSE, "ok", 0, 0, <<>>)

\* no path, a path without a file, a file ffprobe fails on, a clean file,
\* and a short low-resolution file
VideoInputs ==
    { NoVideo,
      VideoFile(TRUE, FALSE, "ok", 0, 0, <<>>),
      VideoFile(TRUE, TRUE, "raise", 0, 0, <<>>),
      VideoFile(TRUE, TRUE, "ok", 120, 20,
                <<[codec_name |-> "h264", height |-> 720],
                  [codec_name |-> "aac", height |-> 0]>>),
      VideoFile(TRUE, TRUE, "ok", 30, 0,
                <<[codec_name |-> "h264", height |-> 360]>>) }

QaIdle ==
    /\ qa_clips = <<>>
    /\ qa_video = NoVideo
    /\ qa_pc = "idle"
    /\ qa_results = NoQaResults

QaInit ==
    /\ qa_clips = <<>>
    /\ qa_video \in VideoInputs
    /\ qa_pc = "build"
    /\ qa_results = NoQaResults

DiversityInit ==
    /\ qa_clips = <<>>
    /\ qa_video = NoVideo
    /\ qa_pc = "build"
    /\ qa_results = NoQaResults

\* the caller passes one more clip
QaAddClip ==
    /\ qa_pc = "build"
    /\ Len(qa_clips) < MaxQaClips
    /\ \E clip \in QaClipInputs : qa_clips' = Append(qa_clips, clip)
    /\ UNCHANGED <<qa_video, qa_pc, qa_results>>
    /\ UNCHANGED notQa

QaAddTeamClip ==
    /\ qa_pc = "build"
    /\ Len(qa_clips) < MaxDiversityClips
    /\ \E clip \in DiversityClipInputs : qa_clips' = Append(qa_clips, clip)
    /\ UNCHANGED <<qa_video, qa_pc, qa_results>>
    /\ UNCHANGED notQa

RunQaChecks ==
    /\ qa_pc = "build"
    /\ qa_results' = run_qa_checks(qa_clips, qa_video)
    /\ qa_pc' = "done"
    /\ UNCHANGED <<qa_clips, qa_video>>
    /\ UNCHANGED notQa

(***************************************************************************)
(* transcribe.py                                                           *)
(*                                                                         *)
(* A video is [video_id, has_auto, has_manual]: the last two say which     *)
(* caption tracks exist for it.  A yt-dlp run of get_captions_ytdlp ends   *)
(* with a .vtt file in the temporary directory ("file"), without one       *)
(* ("nofile"), or raises ("raise": timeout or any other exception); "file" *)
(* needs the track that the run asks for.  A transcript is                 *)
(* [method, track, segments]; track names the caption track the .vtt file  *)
(* was written from, and NoTranscript is None.                             *)
(***************************************************************************)
NoTranscript == [method |-> "none", track |-> "none", segments |-> <<>>]

SomeSegments ==
    << [start |-> 0, duration |-> 40, text |-> "a"],
       [start |-> 40, duration |-> 60, text |-> "b"] >>

\* the outcomes a yt-dlp caption run can have for a track
RunOutcomes(has_track) ==
    IF has_track THEN {"file", "nofile", "raise"} ELSE {"nofile", "raise"}

\* get_captions_ytdlp asking for the manual captions first
get_captions_ytdlp_manual_first(video, auto_run, manual_run, segments) ==
    IF manual_run = "raise" THEN NoTranscript
    ELSE IF manual_run = "nofile" /\ auto_run = "raise" THEN NoTranscript
    ELSE IF manual_run = "nofile" /\ auto_run = "nofile" THEN NoTranscript
    ELSE IF Len(segments) = 0 THEN NoTranscript
    ELSE [method |-> "captions",
          track |-> IF manual_run = "file" THEN "manual" ELSE "auto",
          segments |-> segments]

\* auto_run, manual_run: the outcomes of the two yt-dlp runs (the second is
\* looked at only when the first left no file); segments: what
\* parse_vtt_to_segments returns for the file
get_captions_ytdlp(video, auto_run, manual_run, segments) ==
    IF auto_run = "raise" THEN NoTranscript
    ELSE IF auto_run = "nofile" /\ manual_run = "raise" THEN NoTranscript
    ELSE IF auto_run = "nofile" /\ manual_run = "nofile" THEN NoTranscript
    ELSE IF Len(segments) = 0 THEN NoTranscript
    ELSE [method |-> "captions",
          track |-> IF auto_run = "file" THEN "auto" ELSE "manual",
          segments |-> segments]

\* transcribe_with_whisper: ok says whether the download and the model
\* produced segments
transcribe_with_whisper(video, ok) ==
    IF ok THEN [method |-> "whisper", track |-> "none", segments |-> SomeSegments]
    ELSE NoTranscript

\* the transcript alone, without the fields of the video
WithTranscriptOnly(video, transcript) ==
    [k \in {"transcript"} |-> transcript]

\* {**video, 'transcript': transcript}
WithTranscript(video, transcript) ==
    [k \in DOMAIN video \cup {"transcript"} |->
        IF k = "transcript" THEN transcript ELSE video[k]]

VideoIds == <<"v1", "v2", "v3", "v4">>

TrVideoLists ==
    UNION { { [i \in 1..n |-> [video_id |-> VideoIds[i],
                               has_auto |-> caps[i][1],
                               has_manual |-> caps[i][2]]] :
                caps \in [1..n -> BOOLEAN \X BOOLEAN] } :
            n \in 0..MaxTrVideos }

TrIdle ==
    /\ tr_videos = <<>>
    /\ tr_max_whisper = 0
    /\ tr_i = 0
    /\ tr_results = <<>>
    /\ tr_whisper_count = 0
    /\ tr_whisper_attempts = 0
    /\ tr_log = <<>>

TrInit ==
    /\ tr_videos \in TrVideoLists
    /\ tr_max_whisper \in 0..MaxWhisperLimit
    /\ tr_i = 1
    /\ tr_results = <<>>
    /\ tr_whisper_count = 0
    /\ tr_whisper_attempts = 0
    /\ tr_log = <<>>

\* one iteration of the loop of process_videos; tr_log records what the
\* yt-dlp runs ended in, whether the captions gave segments, and what the
\* Whisper fallback gave ("none" when it was not run)
ProcessVideo ==
    /\ tr_i >= 1
    /\ tr_i <= Len(tr_videos)
    /\ LET video == tr_videos[tr_i] IN
       \E auto_run \in RunOutcomes(video.has_auto),
          manual_run \in RunOutcomes(video.has_manual) \cup {"skipped"},
          segments \in {<<>>, SomeSegments},
          whisper_ok \in BOOLEAN :
          /\ (manual_run = "skipped") <=> (auto_run # "nofile")
          /\ LET captions == get_captions_ytdlp(video, auto_run, manual_run, segments)
                 whisper == transcribe_with_whisper(video, whisper_ok)
             IN IF captions # NoTranscript
                THEN /\ tr_results' = Append(tr_results, WithTranscript(video, captions))
                     /\ UNCHANGED <<tr_whisper_count, tr_whisper_attempts>>
                ELSE IF tr_whisper_count < tr_max_whisper
                THEN /\ tr_whisper_attempts' = tr_whisper_attempts + 1
                     /\ IF whisper # NoTranscript
                        THEN /\ tr_whisper_count' = tr_whisper_count + 1
                             /\ tr_results' = Append(tr_results, WithTranscript(video, whisper))
                        ELSE UNCHANGED <<tr_whisper_count, tr_results>>
                ELSE UNCHANGED <<tr_results, tr_whisper_count, tr_whisper_attempts>>
          /\ tr_log' = Append(tr_log,
                LET parsed == (auto_run = "file" \/ manual_run = "file")
                                 /\ segments # <<>>
                IN [auto_run |-> auto_run, manual_run |-> manual_run,
                    captions |-> IF parsed THEN "ok" ELSE "fail",
                    whisper |-> IF parsed \/ tr_whisper_count >= tr_max_whisper
                                THEN "none"
                                ELSE IF whisper_ok THEN "ok" ELSE "fail"])
    /\ tr_i' = tr_i + 1
    /\ UNCHANGED <<tr_videos, tr_max_whisper>>
    /\ UNCHANGED notTr

\* process_videos returns results
ReturnTranscripts ==
    /\ tr_i = Len(tr_videos) + 1
    /\ tr_i' = 0
    /\ UNCHANGED <<tr_videos, tr_max_whisper, tr_results, tr_whisper_count,
                   tr_whisper_attempts, tr_log>>
    /\ UNCHANGED notTr

(***************************************************************************)
(* score_moments.py: score_all_transcripts                                 *)
(*                                                                         *)
(* The environment env says whether the anthropic and groq libraries       *)
(* import and what the two API key variables hold ("" when unset or        *)
(* empty).  The answer of the LLM for a video is [kind, moments]: the      *)
(* request raises ("raise"), the text is not a JSON array ("garbage"), or  *)
(* it is the JSON array moments ("array").                                 *)
(***************************************************************************)
\* get_llm_client trying Groq before Anthropic
get_llm_client_groq_first(e) ==
    IF e.groq_available /\ e.groq_key # "" THEN "groq"
    ELSE IF e.anthropic_available /\ e.anthropic_key # "" THEN "anthropic"
    ELSE "raise"

\* the provider get_llm_client returns, or "raise" for its RuntimeError
get_llm_client(e) ==
    IF e.anthropic_available /\ e.anthropic_key # "" THEN "anthropic"
    ELSE IF e.groq_available /\ e.groq_key # "" THEN "groq"
    ELSE "raise"

\* parse_moments_json: the list, or [] for anything else
parse_moments_json(response) ==
    IF response.kind = "array" THEN response.moments ELSE <<>>

DEFAULT_DURATION == 3600

\* the duration score_all_transcripts estimates from the segments
transcript_duration(video_data) ==
    LET segments == Get(Get(video_data, "transcript", NoTranscript), "segments", <<>>)
    IN IF Len(segments) > 0
       THEN Get(segments[Len(segments)], "start", 0)
              + Get(segments[Len(segments)], "duration", 0)
       ELSE DEFAULT_DURATION

moment_metadata_keys ==
    {"video_id", "team", "source_title", "source_url", "person",
     "start_seconds", "end_seconds", "duration"}

\* the moment after the assignments of the "Add metadata" block
add_moment_metadata(moment, video_data) ==
    LET start_seconds == timestamp_to_seconds(moment["start_time"])
        end_seconds == timestamp_to_seconds(moment["end_time"])
    IN [k \in DOMAIN moment \cup moment_metadata_keys |->
          CASE k = "video_id" -> Get(video_data, "video_id", "unknown")
            [] k = "team" -> Get(video_data, "team", "")
            [] k = "source_title" -> Get(video_data, "title", "")
            [] k = "source_url" -> Get(video_data, "url", "")
            [] k = "person" -> Get(video_data, "person", "")
            [] k = "start_seconds" -> start_seconds
            [] k = "end_seconds" -> end_seconds
            [] k = "duration" -> FloatSub(end_seconds, start_seconds)
            [] OTHER -> moment[k]]

\* the moments of a list that validate_moment accepts, with their metadata
valid_moments_of(moments, video_data) ==
    LET accepted == SelectSeq(moments,
                       LAMBDA m : validate_moment(m, transcript_duration(video_data)) = "True")
    IN [k \in 1..Len(accepted) |-> add_moment_metadata(accepted[k], video_data)]

\* the body of the loop of score_all_transcripts where the except clause
\* stores the moments validated before the exception
score_video_keeps_partial(video_data, response) ==
    IF response.kind = "raise"
    THEN [raised |-> TRUE, moments |-> <<>>]
    ELSE LET moments == parse_moments_json(response)
             duration == transcript_duration(video_data)
             raising == {k \in 1..Len(moments) :
                            validate_moment(moments[k], duration) = "raise"}
         IN IF raising # {}
            THEN [raised |-> TRUE,
                  moments |-> valid_moments_of(
                      SubSeq(moments, 1,
                             (CHOOSE k \in raising : \A j \in raising : k <= j) - 1),
                      video_data)]
            ELSE [raised |-> FALSE, moments |-> valid_moments_of(moments, video_data)]

\* the body of the loop of score_all_transcripts for one video: what is
\* stored in all_moments[video_id], and whether the except clause ran
score_video(video_data, response) ==
    IF response.kind = "raise"
    THEN [raised |-> TRUE, moments |-> <<>>]
    ELSE LET moments == parse_moments_json(response)
             duration == transcript_duration(video_data)
         IN IF \E k \in 1..Len(moments) :
                   validate_moment(moments[k], duration) = "raise"
            THEN [raised |-> TRUE, moments |-> <<>>]
            ELSE [raised |-> FALSE, moments |-> valid_moments_of(moments, video_data)]

HEADLINE_INJURY == <<"I","n","j","u","r","y"," ","u","p","d","a","t","e">>

WithHeadline(moment, headline) == [moment EXCEPT !["headline"] = headline]

\* 15 seconds, score 9
MomentA == WithHeadline(FullMoment(TS_0_10, TS_0_25, 9), HEADLINE_TRADE)
\* 75 seconds, score 5
MomentB == WithHeadline(FullMoment(TS_0_25, <<"1",":","4","0">>, 5), HEADLINE_INJURY)
\* 95 seconds: rejected
MomentLong == FullMoment(TS_0_10, TS_1_45, 8)
\* a start time that is not a number: the conversion raises
MomentBadTime == FullMoment(<<"x",":","1","0">>, TS_0_25, 8)

\* 15 seconds, a score above the range the prompt asks for
MomentScore11 == WithHeadline(FullMoment(TS_0_10, TS_0_25, 11), HEADLINE_TRADE)

ScoreMomentInputs == {MomentA, MomentB, MomentLong, MomentBadTime, MomentScore11}

\* all lists of at most n elements of a set
ListsUpTo(S, n) == UNION { [1..k -> S] : k \in 0..n }

Response(kind, moments) == [kind |-> kind, moments |-> moments]

ResponseInputs ==
    { Response("raise", <<>>), Response("garbage", <<>>) }
    \cup { Response("array", ms) :
              ms \in ListsUpTo(ScoreMomentInputs, MaxMomentsPerResponse) }

FewResponseInputs ==
    { Response("raise", <<>>),
      Response("array", <<>>),
      Response("array", <<MomentA>>),
      Response("array", <<MomentA, MomentB>>),
      Response("array", <<MomentB, MomentA>>),
      Response("array", <<MomentBadTime, MomentA>>),
      Response("array", <<MomentLong, MomentB>>) }

\* the answers of a whole run: a failed request, one moment, two moments in
\* both orders of score, a rejected moment before a valid one
PipelineResponseInputs ==
    { Response("raise", <<>>),
      Response("array", <<MomentA>>),
      Response("array", <<MomentA, MomentB>>),
      Response("array", <<MomentB, MomentA>>),
      Response("array", <<MomentLong, MomentB>>) }

Env(anthropic_available, anthropic_key, groq_available, groq_key) ==
    [anthropic_available |-> anthropic_available, anthropic_key |-> anthropic_key,
     groq_available |-> groq_available, groq_key |-> groq_key]

EnvInputs ==
    { Env(aa, ak, ga, gk) :
        aa \in BOOLEAN, ak \in {"", "sk"}, ga \in BOOLEAN, gk \in {"", "sk"} }

\* Anthropic usable, only Groq usable, neither usable
FewEnvInputs ==
    { Env(TRUE, "sk", TRUE, ""), Env(FALSE, "", TRUE, "sk"), Env(TRUE, "", FALSE, "sk") }

\* Anthropic usable, neither usable
PipelineEnvInputs ==
    { Env(TRUE, "sk", TRUE, ""), Env(TRUE, "", FALSE, "sk") }

TeamNames == <<"Lakers", "Celtics", "Lakers", "Knicks">>
Urls == <<"u1", "u2", "u3", "u4">>

\* the first n videos as the transcribe stage returns them
TranscriptList(n) ==
    [i \in 1..n |->
        WithTranscript([video_id |-> VideoIds[i], team |-> TeamNames[i],
                        title |-> "Coach talks", url |-> Urls[i],
                        person |-> "Coach"],
                       [method |-> "captions", track |-> "auto",
                        segments |-> SomeSegments])]

NoMetadata ==
    [title_hook |-> <<>>, timestamps |-> <<>>, sources |-> <<>>,
     twitter_highlights |-> <<>>, total_duration_seconds |-> 0,
     total_duration_formatted |-> <<>>, clip_count |-> 0]

NoSummary ==
    [video_count |-> 0, clips_selected |-> 0, total_duration_seconds |-> 0,
     qa_passed |-> FALSE, ready_to_publish |-> FALSE]

PlIdle ==
    /\ env = Env(FALSE, "", FALSE, "")
    /\ transcripts = <<>>
    /\ llm_responses = <<>>
    /\ max_clips = 0
    /\ pc = "idle"
    /\ provider = "none"
    /\ sc_i = 0
    /\ all_moments = <<>>
    /\ top_moments = <<>>
    /\ cl_i = 0
    /\ processed_clips = <<>>
    /\ cl_log = <<>>
    /\ digest = NoVideo
    /\ metadata = NoMetadata
    /\ qa_report = NoQaResults
    /\ review_summary = NoSummary

\* the answers to n requests of which one is any of ResponseInputs and the
\* others are of FewResponseInputs
OneRichResponseLists(n) ==
    IF n = 0 THEN {<<>>}
    ELSE { [i \in 1..n |-> IF i = j THEN any ELSE few[i]] :
              j \in 1..n, any \in ResponseInputs,
              few \in [1..n -> FewResponseInputs] }

\* the state when score_all_transcripts is called; response_lists(n) is the
\* set of the lists of answers to the n requests
PlStartWith(envs, response_lists(_)) ==
    /\ env \in envs
    /\ \E n \in 0..MaxVideos :
          /\ transcripts = TranscriptList(n)
          /\ llm_responses \in response_lists(n)
    /\ max_clips = MaxClipsArg
    /\ pc = "score_start"
    /\ provider = "none"
    /\ sc_i = 0
    /\ all_moments = <<>>
    /\ top_moments = <<>>
    /\ cl_i = 0
    /\ processed_clips = <<>>
    /\ cl_log = <<>>
    /\ digest = NoVideo
    /\ metadata = NoMetadata
    /\ qa_report = NoQaResults
    /\ review_summary = NoSummary

\* the same with every answer drawn from the set responses
PlStart(envs, responses) ==
    PlStartWith(envs, LAMBDA n : [1..n -> responses])

\* score_all_transcripts up to its loop: the empty list returns {} at once,
\* otherwise get_llm_client selects the provider or raises
GetLlmClient ==
    /\ pc = "score_start"
    /\ IF Len(transcripts) = 0
       THEN /\ pc' = "select"
            /\ UNCHANGED <<provider, sc_i>>
       ELSE IF get_llm_client(env) = "raise"
       THEN /\ pc' = "failed"
            /\ UNCHANGED <<provider, sc_i>>
       ELSE /\ provider' = get_llm_client(env)
            /\ sc_i' = 1
            /\ pc' = "scoring"
    /\ UNCHANGED <<env, transcripts, llm_responses, max_clips, all_moments,
                   top_moments, cl_i, processed_clips, cl_log, digest,
                   metadata, qa_report, review_summary>>
    /\ UNCHANGED notPl

\* one iteration of the loop of score_all_transcripts
ScoreVideo ==
    /\ pc = "scoring"
    /\ sc_i <= Len(transcripts)
    /\ LET video_data == transcripts[sc_i]
           scored == score_video(video_data, llm_responses[sc_i])
       IN all_moments' = Append(all_moments,
              [video_id |-> Get(video_data, "video_id", "unknown"),
               raised |-> scored.raised,
               moments |-> scored.moments])
    /\ sc_i' = sc_i + 1
    /\ UNCHANGED <<env, transcripts, llm_responses, max_clips, pc, provider,
                   top_moments, cl_i, processed_clips, cl_log, digest,
                   metadata, qa_report, review_summary>>
    /\ UNCHANGED notPl

\* score_all_transcripts returns all_moments
ReturnMoments ==
    /\ pc = "scoring"
    /\ sc_i = Len(transcripts) + 1
    /\ pc' = "select"
    /\ UNCHANGED <<env, transcripts, llm_responses, max_clips, provider, sc_i,
                   all_moments, top_moments, cl_i, processed_clips, cl_log,
                   digest, metadata, qa_report, review_summary>>
    /\ UNCHANGED notPl

(***************************************************************************)
(* main.py, clip_videos.py, compile_digest.py: the stages after scoring    *)
(***************************************************************************)
Min(a, b) == IF a < b THEN a ELSE b

\* seq[:n]
Take(seq, n) == SubSeq(seq, 1, Min(n, Len(seq)))

\* the sort key x.get('score', 0)
ScoreKey(x) == Get(x, "score", 0)

\* where list.sort(key=score, reverse=True) puts x in a sorted list: after
\* the elements with a score at least its own (the sort is stable)
InsertByScore(sorted, x) ==
    LET pos == Cardinality({i \in 1..Len(sorted) : ScoreKey(sorted[i]) >= ScoreKey(x)})
    IN SubSeq(sorted, 1, pos) \o <<x>> \o SubSeq(sorted, pos + 1, Len(sorted))

RECURSIVE SortByScoreDesc(_)
SortByScoreDesc(seq) ==
    IF Len(seq) = 0 THEN <<>>
    ELSE InsertByScore(SortByScoreDesc(SubSeq(seq, 1, Len(seq) - 1)), seq[Len(seq)])

\* the same without the sort by score
select_top_moments_unsorted(scored_moments, n) ==
    LET flat == Flatten([i \in 1..Len(scored_moments) |->
                   [k \in 1..Len(scored_moments[i].moments) |->
                      [scored_moments[i].moments[k] EXCEPT
                          !["video_id"] = scored_moments[i].video_id]]])
    IN Take(flat, n)

\* run_pipeline lines 60-68: flatten scored_moments in the order of the
\* dict, set video_id, sort by score, keep the first max_clips
select_top_moments(scored_moments, n) ==
    LET flat == Flatten([i \in 1..Len(scored_moments) |->
                   [k \in 1..Len(scored_moments[i].moments) |->
                      [scored_moments[i].moments[k] EXCEPT
                          !["video_id"] = scored_moments[i].video_id]]])
    IN Take(SortByScoreDesc(flat), n)

\* get_video_duration of the final clip: ffprobe reports the length of the
\* file, which is the requested range ("exact") or, with cuts forced at
\* keyframes, a second more ("longer"); when ffprobe fails the result is 0
get_video_duration(moment, probe) ==
    CASE probe = "exact" -> moment["duration"]
      [] probe = "longer" -> moment["duration"] + 1
      [] OTHER -> 0

ClipPath(i, video_id) == [kind |-> "clip", index |-> i, video_id |-> video_id]

clip_keys == {"clip_path", "clip_filename", "actual_duration", "clip_index"}

\* what running yt-dlp for a clip can end in: exit 0 with the file written,
\* a non-zero exit, exit 0 without a file, a timeout, any other exception
DownloadOutcomes == {"ok", "nonzero", "nofile", "timeout", "raise"}

\* download_and_process_clips running yt-dlp again after a failed run
download_runs_with_retry(outcome) == IF outcome = "ok" THEN 1 ELSE 2

\* how often the loop body of download_and_process_clips runs yt-dlp for a
\* moment whose first run ends in outcome: download_clip is called once and
\* runs it once
download_runs(outcome) == 1

\* how often the loop body runs ffmpeg for the overlays of a downloaded clip
overlay_runs(outcome) == 1

\* download_clip looking at the exit code only
download_clip_exit_code_only(outcome) == outcome \in {"ok", "nofile"}

\* download_clip: True only when yt-dlp exited 0 and the file exists
download_clip(outcome) == outcome = "ok"

\* what running ffmpeg for the overlays can end in
OverlayOutcomes == {"ok", "nonzero", "nofile", "timeout", "raise"}

\* add_overlays reporting a failed rendering instead of copying the raw clip
add_overlays_reports_failure(outcome) ==
    IF outcome = "ok"
    THEN [returned |-> TRUE, final |-> "overlaid"]
    ELSE [returned |-> FALSE, final |-> "none"]

\* add_overlays: what it returns and what it leaves at the final clip
\* path, the rendered clip or a copy of the raw clip (shutil.copy of the
\* downloaded file is taken to succeed)
add_overlays(outcome) ==
    IF outcome = "ok"
    THEN [returned |-> TRUE, final |-> "overlaid"]
    ELSE [returned |-> TRUE, final |-> "raw"]

\* the clean-up leaving the raw clip in place
raw_exists_after_cleanup_kept(raw_exists, final_exists) == raw_exists

\* lines 218-220: the raw clip is deleted when it and the final clip both
\* exist; the result tells whether the raw clip is still there
raw_exists_after_cleanup(raw_exists, final_exists) ==
    raw_exists /\ ~(raw_exists /\ final_exists)

\* the loop body of download_and_process_clips without the "continue" after
\* a failed download
process_clip_no_skip(moment, i, download, overlay, probe) ==
    <<[k \in DOMAIN moment \cup clip_keys |->
          CASE k = "clip_path" -> ClipPath(i, moment["video_id"])
            [] k = "clip_filename" -> ClipPath(i, moment["video_id"])
            [] k = "actual_duration" -> get_video_duration(moment, probe)
            [] k = "clip_index" -> i
            [] OTHER -> moment[k]]>>

\* the loop body of download_and_process_clips for the i-th moment: the
\* clips it appends.  download and overlay are what yt-dlp and ffmpeg end
\* in, probe is what ffprobe reports for the final clip
process_clip(moment, i, download, overlay, probe) ==
    IF ~download_clip(download) THEN <<>>
    ELSE IF ~add_overlays(overlay).returned THEN <<>>
    ELSE <<[k \in DOMAIN moment \cup clip_keys |->
              CASE k = "clip_path" -> ClipPath(i, moment["video_id"])
                [] k = "clip_filename" -> ClipPath(i, moment["video_id"])
                [] k = "actual_duration" -> get_video_duration(moment, probe)
                [] k = "clip_index" -> i
                [] OTHER -> moment[k]]>>

DAILY_DIGEST == <<"D","a","i","l","y"," ","D","i","g","e","s","t">>
HIGHLIGHT == <<"H","i","g","h","l","i","g","h","t">>
DEFAULT_CLIP_SECONDS == 30
TWITTER_CLIPS == 4
EYES_SCORE == 8

\* the nominal duration of the moment instead of the measured one
clip_seconds_nominal(clip) == Get(clip, "duration", DEFAULT_CLIP_SECONDS)

\* the duration generate_metadata counts for a clip
clip_seconds(clip) ==
    Get(clip, "actual_duration", Get(clip, "duration", DEFAULT_CLIP_SECONDS))


\* current_time when the loop reaches clip k: the sum over clips 1..k-1
RECURSIVE current_time_at(_, _)
current_time_at(clips, k) ==
    IF k <= 1 THEN 0
    ELSE current_time_at(clips, k - 1) + clip_seconds(clips[k - 1])

\* the offset with the seconds not padded to two digits
format_offset_unpadded(current_time) ==
    IntToStr(current_time \div 60) \o <<":">> \o IntToStr(current_time % 60)

\* f"{minutes}:{seconds:02d}" of generate_metadata
format_offset(current_time) ==
    IntToStr(current_time \div 60) \o <<":">> \o Pad2(current_time % 60)

\* the last clip with the largest score instead of the first
top_clip_last(clips) ==
    clips[CHOOSE i \in 1..Len(clips) :
             /\ \A j \in 1..Len(clips) : ScoreKey(clips[j]) <= ScoreKey(clips[i])
             /\ \A j \in (i + 1)..Len(clips) : ScoreKey(clips[j]) < ScoreKey(clips[i])]

\* max(clips, key=score): the first clip with the largest score
top_clip(clips) ==
    clips[CHOOSE i \in 1..Len(clips) :
             /\ \A j \in 1..Len(clips) : ScoreKey(clips[j]) <= ScoreKey(clips[i])
             /\ \A j \in 1..(i - 1) : ScoreKey(clips[j]) < ScoreKey(clips[i])]

\* a source line for every clip with a URL, seen before or not
source_lines_all(clips) ==
    LET first == SelectSeq([i \in 1..Len(clips) |-> i],
                    LAMBDA i : Get(clips[i], "source_url", "") # "")
    IN [k \in 1..Len(first) |->
          [team |-> Get(clips[first[k]], "team", ""),
           url |-> Get(clips[first[k]], "source_url", "")]]

\* the clips that contribute a source line: a non-empty URL not seen before
source_lines(clips) ==
    LET first == SelectSeq([i \in 1..Len(clips) |-> i],
                    LAMBDA i : /\ Get(clips[i], "source_url", "") # ""
                               /\ \A j \in 1..(i - 1) :
                                     Get(clips[j], "source_url", "")
                                        # Get(clips[i], "source_url", ""))
    IN [k \in 1..Len(first) |->
          [team |-> Get(clips[first[k]], "team", ""),
           url |-> Get(clips[first[k]], "source_url", "")]]

\* the fields of the metadata that depend on the clips (not on the date)
generate_metadata(clips) ==
    LET total_duration == current_time_at(clips, Len(clips) + 1) IN
    [ title_hook |-> IF Len(clips) > 0
                     THEN Get(top_clip(clips), "headline", DAILY_DIGEST)
                     ELSE DAILY_DIGEST,
      timestamps |-> [k \in 1..Len(clips) |->
          [timestamp |-> format_offset(current_time_at(clips, k)),
           headline |-> Get(clips[k], "headline", HIGHLIGHT),
           team |-> Get(clips[k], "team", "NBA")]],
      sources |-> source_lines(clips),
      twitter_highlights |-> [k \in 1..Len(Take(clips, TWITTER_CLIPS)) |->
          [eyes |-> ScoreKey(clips[k]) >= EYES_SCORE,
           headline |-> Get(clips[k], "headline", <<>>)]],
      total_duration_seconds |-> total_duration,
      total_duration_formatted |-> format_offset(total_duration),
      clip_count |-> Len(clips) ]

\* sum(c.get('duration', 0) for c in processed_clips)
RECURSIVE sum_duration(_)
sum_duration(clips) ==
    IF Len(clips) = 0 THEN 0
    ELSE Get(Head(clips), "duration", 0) + sum_duration(Tail(clips))

\* the fields of review_summary that are computed (lines 101-122)
make_review_summary(n_videos, clips, qa) ==
    [ video_count |-> n_videos,
      clips_selected |-> Len(clips),
      total_duration_seconds |-> sum_duration(clips),
      qa_passed |-> Get(qa, "all_passed", FALSE),
      ready_to_publish |-> Get(qa, "all_passed", FALSE) ]

\* the digest files compile_final_video can leave for a clip list: no file
\* (ffmpeg failed), a file ffprobe reads, a file ffprobe fails on.  ffmpeg
\* fails on an empty concat list.
DigestFiles(clips) ==
    { VideoFile(TRUE, FALSE, "ok", 0, 0, <<>>) }
    \cup IF Len(clips) = 0 THEN {}
         ELSE { VideoFile(TRUE, TRUE, "ok",
                          current_time_at(clips, Len(clips) + 1), 20,
                          <<[codec_name |-> "h264", height |-> 720]>>),
                VideoFile(TRUE, TRUE, "raise", 0, 0, <<>>) }

\* run_pipeline lines 60-73
SelectTopMoments ==
    /\ pc = "select"
    /\ top_moments' = select_top_moments(all_moments, max_clips)
    /\ pc' = "clip_start"
    /\ UNCHANGED <<env, transcripts, llm_responses, max_clips, provider, sc_i,
                   all_moments, cl_i, processed_clips, cl_log, digest,
                   metadata, qa_report, review_summary>>
    /\ UNCHANGED notPl

\* download_and_process_clips up to its loop: check_dependencies raises
\* when yt-dlp or ffmpeg is not installed
CheckDependencies ==
    /\ pc = "clip_start"
    /\ \E installed \in BOOLEAN :
          IF installed
          THEN pc' = "clipping" /\ cl_i' = 1
          ELSE pc' = "clip_failed" /\ UNCHANGED cl_i
    /\ UNCHANGED <<env, transcripts, llm_responses, max_clips, provider, sc_i,
                   all_moments, top_moments, processed_clips, cl_log, digest,
                   metadata, qa_report, review_summary>>
    /\ UNCHANGED notPl

\* one iteration of the loop of download_and_process_clips; cl_log records
\* for the moment whether the download succeeded, whether the overlays were
\* rendered ("none": add_overlays was not called), what is at the final clip
\* path, whether the raw clip is still there after the clean-up ("unknown"
\* after a failed download, which may leave a partial file), how often yt-dlp and ffmpeg were run and what ffprobe measured
ClipMoment ==
    /\ pc = "clipping"
    /\ cl_i <= Len(top_moments)
    /\ \E download \in DownloadOutcomes, overlay \in OverlayOutcomes,
          probe \in {"exact", "longer", "fail"} :
          /\ processed_clips' = processed_clips
                \o process_clip(top_moments[cl_i], cl_i, download, overlay, probe)
          /\ cl_log' = Append(cl_log,
                IF download = "ok"
                THEN [download |-> "ok",
                      overlay |-> IF overlay = "ok" THEN "ok" ELSE "fail",
                      final |-> add_overlays(overlay).final,
                      raw |-> IF raw_exists_after_cleanup(TRUE,
                                     add_overlays(overlay).final # "none")
                              THEN "kept" ELSE "deleted",
                      downloads |-> download_runs(download),
                      overlays |-> overlay_runs(overlay),
                      measured |-> IF add_overlays(overlay).returned
                                   THEN get_video_duration(top_moments[cl_i], probe)
                                   ELSE 0]
                ELSE [download |-> "fail", overlay |-> "none", final |-> "none",
                      raw |-> "unknown", downloads |-> download_runs(download), overlays |-> 0,
                      measured |-> 0])
    /\ cl_i' = cl_i + 1
    /\ UNCHANGED <<env, transcripts, llm_responses, max_clips, pc, provider,
                   sc_i, all_moments, top_moments, digest, metadata,
                   qa_report, review_summary>>
    /\ UNCHANGED notPl

\* download_and_process_clips returns processed_clips
ReturnClips ==
    /\ pc = "clipping"
    /\ cl_i = Len(top_moments) + 1
    /\ pc' = "compile"
    /\ UNCHANGED <<env, transcripts, llm_responses, max_clips, provider, sc_i,
                   all_moments, top_moments, cl_i, processed_clips, cl_log,
                   digest, metadata, qa_report, review_summary>>
    /\ UNCHANGED notPl

\* compile_final_video; run_pipeline ignores its result
CompileFinalVideo ==
    /\ pc = "compile"
    /\ digest' \in DigestFiles(processed_clips)
    /\ pc' = "metadata"
    /\ UNCHANGED <<env, transcripts, llm_responses, max_clips, provider, sc_i,
                   all_moments, top_moments, cl_i, processed_clips, cl_log,
                   metadata, qa_report, review_summary>>
    /\ UNCHANGED notPl

GenerateMetadata ==
    /\ pc = "metadata"
    /\ metadata' = generate_metadata(processed_clips)
    /\ pc' = "qa"
    /\ UNCHANGED <<env, transcripts, llm_responses, max_clips, provider, sc_i,
                   all_moments, top_moments, cl_i, processed_clips, cl_log,
                   digest, qa_report, review_summary>>
    /\ UNCHANGED notPl

\* run_pipeline lines 93-125: the QA checks and the review summary
RunPipelineQa ==
    /\ pc = "qa"
    /\ qa_report' = run_qa_checks(processed_clips, digest)
    /\ review_summary' = make_review_summary(Len(transcripts), processed_clips,
                             run_qa_checks(processed_clips, digest))
    /\ pc' = "done"
    /\ UNCHANGED <<env, transcripts, llm_responses, max_clips, provider, sc_i,
                   all_moments, top_moments, cl_i, processed_clips, cl_log,
                   digest, metadata>>
    /\ UNCHANGED notPl

(***************************************************************************)
(* compile_digest.py: generate_metadata called on a list of clips          *)
(***************************************************************************)
\* a processed clip as generate_metadata reads it; durations holds the keys
\* 'duration' and 'actual_duration' the clip has
MetaClip(team, headline, score, source_url, durations) ==
    [k \in {"team", "headline", "score", "source_url"} \cup DOMAIN durations |->
        CASE k = "team" -> team
          [] k = "headline" -> headline
          [] k = "score" -> score
          [] k = "source_url" -> source_url
          [] OTHER -> durations[k]]

NoDurations == [k \in {} |-> 0]
Nominal(d) == [k \in {"duration"} |-> d]
Measured(d, a) == [k \in {"duration", "actual_duration"} |->
                      IF k = "duration" THEN d ELSE a]

\* clips with a nominal duration only, clips whose measured duration is a
\* second longer or 0 (ffprobe failed), and a clip without any duration
MetaClipInputs ==
    { MetaClip("Lakers", HEADLINE_TRADE, 9, "u1", Nominal(30)),
      MetaClip("Celtics", HEADLINE_INJURY, 9, "u2", Nominal(40)),
      MetaClip("Lakers", HEADLINE_INJURY, 7, "u1", Nominal(20)),
      MetaClip("Knicks", HEADLINE_TRADE, 8, "u3", Measured(40, 41)),
      MetaClip("Celtics", HEADLINE_TRADE, 5, "", Measured(20, 0)),
      MetaClip("Knicks", HEADLINE_INJURY, 10, "u2", NoDurations) }

\* the state when generate_metadata is called on a list of clips
MetaInit ==
    /\ env = Env(FALSE, "", FALSE, "")
    /\ transcripts = <<>>
    /\ llm_responses = <<>>
    /\ max_clips = 0
    /\ pc = "metadata"
    /\ provider = "none"
    /\ sc_i = 0
    /\ all_moments = <<>>
    /\ top_moments = <<>>
    /\ cl_i = 0
    /\ \E n \in 0..MaxMetaClips : processed_clips \in [1..n -> MetaClipInputs]
    /\ cl_log = <<>>
    /\ digest = NoVideo
    /\ metadata = NoMetadata
    /\ qa_report = NoQaResults
    /\ review_summary = NoSummary


(***************************************************************************)
(* score_moments.py: timestamp_to_seconds applied to one timestamp, and    *)
(* the seconds written back as format_transcript_for_scoring writes the    *)
(* start of a segment.  ts_form and ts_fields record how the input was     *)
(* built: the form of the text and the numbers of its fields.              *)
(***************************************************************************)
\* the two-digit text of a number below 100
TwoDigits(n) == <<DigitChars[(n \div 10) + 1], DigitChars[(n % 10) + 1]>>

\* minutes of the M:SS inputs: short videos and videos longer than an hour
TsMinuteInputs == (0..MaxTsMinute) \cup {62, 100}

\* the MM field of the H:MM:SS inputs
TsMinuteFields == {0, 2, 9, 10, 59}

\* texts that are neither M:SS nor H:MM:SS: a negative minute, no colon, no
\* number, seconds above 59
NonTimestamps ==
    { <<"-","1",":","3","0">>,
      <<"9","0">>,
      <<"x",":","1","0">>,
      <<"2",":","7","5">> }

TsIdle ==
    /\ ts_text = <<>>
    /\ ts_form = "none"
    /\ ts_fields = <<>>
    /\ ts_pc = "idle"
    /\ ts_result = [raised |-> FALSE, seconds |-> 0]
    /\ ts_back = <<>>

TsInit ==
    /\ \/ \E m \in TsMinuteInputs, sec \in 0..59 :
             /\ ts_form = "M:SS"
             /\ ts_fields = <<m, sec>>
             /\ ts_text = NatToStr(m) \o <<":">> \o TwoDigits(sec)
       \/ \E m \in 0..9, sec \in 0..59 :
             /\ ts_form = "MM:SS"
             /\ ts_fields = <<m, sec>>
             /\ ts_text = TwoDigits(m) \o <<":">> \o TwoDigits(sec)
       \/ \E h \in 0..MaxTsHour, m \in TsMinuteFields, sec \in 0..59 :
             /\ ts_form = "H:MM:SS"
             /\ ts_fields = <<h, m, sec>>
             /\ ts_text = NatToStr(h) \o <<":">> \o TwoDigits(m)
                              \o <<":">> \o TwoDigits(sec)
       \/ /\ ts_form = "other"
          /\ ts_fields = <<>>
          /\ ts_text \in NonTimestamps
    /\ ts_pc = "call"
    /\ ts_result = [raised |-> FALSE, seconds |-> 0]
    /\ ts_back = <<>>

\* the call timestamp_to_seconds(ts_text): it returns or raises ValueError
ParseTimestamp ==
    /\ ts_pc = "call"
    /\ ts_result' = IF timestamp_raises(ts_text)
                    THEN [raised |-> TRUE, seconds |-> 0]
                    ELSE [raised |-> FALSE, seconds |-> timestamp_to_seconds(ts_text)]
    /\ ts_pc' = "parsed"
    /\ UNCHANGED <<ts_text, ts_form, ts_fields, ts_back>>
    /\ UNCHANGED notTs

\* the returned seconds written as format_transcript_for_scoring writes them
FormatSeconds ==
    /\ ts_pc = "parsed"
    /\ ~ts_result.raised
    /\ ts_back' = format_minutes_seconds(ts_result.seconds)
    /\ ts_pc' = "formatted"
    /\ UNCHANGED <<ts_text, ts_form, ts_fields, ts_result>>
    /\ UNCHANGED notTs


(***************************************************************************)
(* ingest.py: get_new_videos                                               *)
(*                                                                         *)
(* A publish time is an hour on a scale 00..99; its text in a feed is the  *)
(* two-digit hour followed by the UTC designator ("Z" or "+00:00", as      *)
(* YouTube writes it) or by nothing; the date and the minutes, equal for   *)
(* all entries, are left out.  Titles have no HTML entities.  The URL of *)
(* a video is determined by its id and is written as the id.               *)
(***************************************************************************)
\* the characters of a publish time in the order of their code points
CodePointOrder ==
    <<"+", "-", ".", "0", "1", "2", "3", "4", "5", "6", "7", "8", "9", ":",
      "T", "Z">>

CharRank(c) == CHOOSE i \in 1..Len(CodePointOrder) : CodePointOrder[i] = c

\* a < b for Python strings
RECURSIVE StrLess(_, _)
StrLess(a, b) ==
    IF Len(b) = 0 THEN FALSE
    ELSE IF Len(a) = 0 THEN TRUE
    ELSE IF a[1] # b[1] THEN CharRank(a[1]) < CharRank(b[1])
    ELSE StrLess(Tail(a), Tail(b))

UTC_OFFSET == <<"+", "0", "0", ":", "0", "0">>

\* pub_str.replace('Z', '+00:00')
RECURSIVE ReplaceZ(_)
ReplaceZ(text) ==
    IF Len(text) = 0 THEN <<>>
    ELSE (IF Head(text) = "Z" THEN UTC_OFFSET ELSE <<Head(text)>>)
            \o ReplaceZ(Tail(text))

\* datetime.fromisoformat accepts the text: an hour, then no offset or +00:00
IsIsoTime(text) ==
    /\ Len(text) >= 2
    /\ IsDigit(text[1]) /\ IsDigit(text[2])
    /\ SubSeq(text, 3, Len(text)) \in {<<>>, UTC_OFFSET}

\* datetime.fromisoformat: the hour and the offset ("" for a naive time)
fromisoformat(text) ==
    [hour |-> DigitsValue(SubSeq(text, 1, 2)), tz |-> SubSeq(text, 3, Len(text))]

\* datetime.isoformat
isoformat(date) == TwoDigits(date.hour) \o date.tz

\* one <entry> block of a feed: the fields the regular expressions find (a
\* key is absent when its expression does not match)
RawEntry(title, video_id, published) ==
    [title |-> title, video_id |-> video_id, published |-> published]

\* parse_rss_entries: the entries with title, video id and a publish time
\* that parses; an entry that raises is skipped
RECURSIVE parse_rss_entries(_)
parse_rss_entries(entries_raw) ==
    IF Len(entries_raw) = 0 THEN <<>>
    ELSE LET e == Head(entries_raw)
             found == {"title", "video_id", "published"} \subseteq DOMAIN e
         IN (IF found /\ IsIsoTime(ReplaceZ(e.published))
             THEN <<[title |-> e.title, video_id |-> e.video_id,
                     published |-> fromisoformat(ReplaceZ(e.published))]>>
             ELSE <<>>)
            \o parse_rss_entries(Tail(entries_raw))

NOW_HOUR == 30
HOURS_BACK == 24

\* cutoff = utcnow() - timedelta(hours=hours_back)
cutoff_hour == NOW_HOUR - HOURS_BACK

T_COACH_TALKS == <<"C", "o", "a", "c", "h", " ", "T", "a", "l", "k", "s">>
T_DUNK_MIX == <<"D", "u", "n", "k", " ", "M", "I", "X">>

\* extract_person_name on the titles of the model: the words before the
\* first keyword ('talks'), all of the title when it has no keyword
extract_person_name(title) ==
    IF title = T_COACH_TALKS THEN "Coach" ELSE "Dunk MIX"

\* the inner loop of get_new_videos: the videos of one channel
RECURSIVE team_videos_of(_, _, _)
team_videos_of(entries, team, channel_id) ==
    IF Len(entries) = 0 THEN <<>>
    ELSE LET entry == Head(entries) IN
         (IF entry.published.hour < cutoff_hour THEN <<>>
          ELSE IF ~is_press_conference(entry.title) THEN <<>>
          ELSE <<[team |-> team, title |-> entry.title,
                  video_id |-> entry.video_id,
                  url |-> entry.video_id,
                  published |-> isoformat(entry.published),
                  channel_id |-> channel_id,
                  person |-> extract_person_name(entry.title)]>>)
         \o team_videos_of(Tail(entries), team, channel_id)

\* what the request for a feed ends in: fetch_url returns None ("none"), an
\* empty body ("empty"), a body without '<feed' ("invalid"), a feed
\* ("feed"), or the loop body raises ("error")
Feed(kind, entries) == [kind |-> kind, entries |-> entries]

\* one iteration of the outer loop with a failure of the channel leaving
\* get_new_videos
scan_channel_aborts(new_videos, channel, feed) ==
    IF feed.kind = "feed"
    THEN [aborted |-> FALSE,
          new_videos |-> new_videos
              \o team_videos_of(parse_rss_entries(feed.entries),
                                channel.team, channel.channel_id)]
    ELSE [aborted |-> TRUE, new_videos |-> new_videos]

\* one iteration of the outer loop of get_new_videos: new_videos after it;
\* every failure is caught inside the iteration
scan_channel(new_videos, channel, feed) ==
    IF feed.kind = "feed"
    THEN [aborted |-> FALSE,
          new_videos |-> new_videos
              \o team_videos_of(parse_rss_entries(feed.entries),
                                channel.team, channel.channel_id)]
    ELSE [aborted |-> FALSE, new_videos |-> new_videos]

\* where list.sort(key=published, reverse=True) puts x in a sorted list:
\* after the elements whose key is not smaller (the sort is stable)
InsertByPublishedAscending(sorted, x) ==
    LET pos == Cardinality({i \in 1..Len(sorted) :
                               ~StrLess(x.published, sorted[i].published)})
    IN SubSeq(sorted, 1, pos) \o <<x>> \o SubSeq(sorted, pos + 1, Len(sorted))

InsertByPublished(sorted, x) ==
    LET pos == Cardinality({i \in 1..Len(sorted) :
                               ~StrLess(sorted[i].published, x.published)})
    IN SubSeq(sorted, 1, pos) \o <<x>> \o SubSeq(sorted, pos + 1, Len(sorted))

RECURSIVE SortByPublishedDesc(_)
SortByPublishedDesc(seq) ==
    IF Len(seq) = 0 THEN <<>>
    ELSE InsertByPublished(SortByPublishedDesc(SubSeq(seq, 1, Len(seq) - 1)),
                           seq[Len(seq)])

\* the entries of the model: two recent press conferences (hour 07 written
\* with Z, hour 20 with +00:00), one at the cutoff without offset, one
\* before the cutoff, a recent video that is not a press conference, an
\* entry whose date does not parse, an entry without title
EntryKinds ==
    { RawEntry(T_COACH_TALKS, "id", <<"0", "7", "Z">>),
      RawEntry(T_COACH_TALKS, "id", <<"2", "0">> \o UTC_OFFSET),
      RawEntry(T_COACH_TALKS, "id", <<"0", "6">>),
      RawEntry(T_COACH_TALKS, "id", <<"0", "5", "Z">>),
      RawEntry(T_DUNK_MIX, "id", <<"2", "0", "Z">>),
      RawEntry(T_COACH_TALKS, "id", <<"s", "o", "o", "n">>),
      WithoutKey(RawEntry(T_COACH_TALKS, "id", <<"0", "7", "Z">>), "title") }

\* the video id of entry k of channel c
EntryIds ==
    <<<<"a1", "a2", "a3", "a4">>, <<"b1", "b2", "b3", "b4">>,
      <<"c1", "c2", "c3", "c4">>, <<"d1", "d2", "d3", "d4">>>>

EntryId(c, k) == EntryIds[c][k]

\* the answers of the channels that are not varied in full: two failures,
\* a feed without a body, and feeds of one press conference
FewFeedInputs ==
    { Feed("none", <<>>), Feed("invalid", <<>>), Feed("empty", <<>>),
      Feed("feed", <<RawEntry(T_COACH_TALKS, "id", <<"0", "7", "Z">>)>>),
      Feed("feed", <<RawEntry(T_COACH_TALKS, "id", <<"2", "0">> \o UTC_OFFSET)>>) }

\* what a channel can answer with: a failure or a list of entries
FeedInputs ==
    { Feed("none", <<>>), Feed("empty", <<>>), Feed("invalid", <<>>),
      Feed("error", <<>>) }
    \cup { Feed("feed", es) : es \in ListsUpTo(EntryKinds, MaxEntries) }

\* the feed of channel c: every entry has its own video id
FeedOfChannel(feed, c) ==
    [feed EXCEPT !.entries =
        [k \in 1..Len(feed.entries) |->
            [feed.entries[k] EXCEPT !["video_id"] = EntryId(c, k)]]]

ChannelList ==
    <<[team |-> "Lakers", channel_id |-> "UC1"],
      [team |-> "Celtics", channel_id |-> "UC2"],
      [team |-> "Knicks", channel_id |-> "UC3"],
      [team |-> "Bulls", channel_id |-> "UC4"]>>

InIdle ==
    /\ in_channels = <<>>
    /\ in_feeds = <<>>
    /\ in_i = 0
    /\ in_new_videos = <<>>
    /\ in_fetches = <<>>
    /\ in_pc = "idle"

\* the answers of n channels of which one is any of FeedInputs and the
\* others are of FewFeedInputs
OneRichFeedLists(n) ==
    { [c \in 1..n |-> IF c = j THEN any ELSE few[c]] :
          j \in 1..n, any \in FeedInputs, few \in [1..n -> FewFeedInputs] }

\* get_new_videos is called: new_videos = [] and the loop starts;
\* feed_lists(n) is the set of the lists of answers of the n channels
InStartWith(feed_lists(_)) ==
    /\ \E n \in 1..MaxChannels :
          /\ in_channels = SubSeq(ChannelList, 1, n)
          /\ \E f \in feed_lists(n) :
                in_feeds = [c \in 1..n |-> FeedOfChannel(f[c], c)]
    /\ in_i = 1
    /\ in_new_videos = <<>>
    /\ in_fetches = <<>>
    /\ in_pc = "scanning"

InInit == InStartWith(OneRichFeedLists)

\* one iteration of the loop over the channels: the feed is requested once
\* (an "error" stands for an exception anywhere in the body)
ScanChannel ==
    /\ in_pc = "scanning"
    /\ in_i <= Len(in_channels)
    /\ LET r == scan_channel(in_new_videos, in_channels[in_i], in_feeds[in_i]) IN
       IF r.aborted
       THEN /\ in_pc' = "raised"
            /\ UNCHANGED <<in_new_videos, in_i>>
       ELSE /\ in_new_videos' = r.new_videos
            /\ in_i' = in_i + 1
            /\ UNCHANGED in_pc
    /\ in_fetches' = Append(in_fetches, in_channels[in_i].channel_id)
    /\ UNCHANGED <<in_channels, in_feeds>>
    /\ UNCHANGED notIn

\* after the loop: new_videos.sort(...) and return
ReturnVideos ==
    /\ in_pc = "scanning"
    /\ in_i = Len(in_channels) + 1
    /\ in_new_videos' = SortByPublishedDesc(in_new_videos)
    /\ in_pc' = "returned"
    /\ UNCHANGED <<in_channels, in_feeds, in_i, in_fetches>>
    /\ UNCHANGED notIn


(***************************************************************************)
(* main.py: run_pipeline from the ingest stage to the clip stage           *)
(***************************************************************************)
\* the feeds of a whole run: a failed fetch, or one or two recent press
\* conferences
RunFeedInputs ==
    { Feed("none", <<>>),
      Feed("feed", <<RawEntry(T_COACH_TALKS, "id", <<"0", "7", "Z">>)>>),
      Feed("feed", <<RawEntry(T_COACH_TALKS, "id", <<"0", "7", "Z">>),
                     RawEntry(T_COACH_TALKS, "id", <<"2", "0", "Z">>)>>) }

\* the answers of the n channels in a whole run: one channel is any of
\* RunFeedInputs, the others fail or have one press conference
RunFeedLists(n) ==
    { [c \in 1..n |-> IF c = j THEN any ELSE few[c]] :
          j \in 1..n, any \in RunFeedInputs,
          few \in [1..n -> { f \in RunFeedInputs : Len(f.entries) <= 1 }] }

\* the answers of the LLM in a whole run: a failed request or one moment
RunResponseInputs ==
    { Response("raise", <<>>), Response("array", <<MomentA>>) }

\* the order-preserving subsequence of seq at the positions in keep
RECURSIVE SubsequenceAt(_, _)
SubsequenceAt(seq, keep) ==
    IF Len(seq) = 0 THEN <<>>
    ELSE SubsequenceAt(SubSeq(seq, 1, Len(seq) - 1), keep)
            \o (IF Len(seq) \in keep THEN <<seq[Len(seq)]>> ELSE <<>>)

\* run_pipeline lines 36-57, after get_new_videos has returned: without
\* videos the run returns None; otherwise the transcribe stage returns the
\* videos it found a transcript for, each with its transcript, and the
\* scoring stage is called on them
TranscribeStage ==
    /\ in_pc = "returned"
    /\ pc = "idle"
    /\ IF Len(in_new_videos) = 0
       THEN /\ pc' = "no_videos"
            /\ UNCHANGED <<env, transcripts, llm_responses, max_clips>>
       ELSE /\ \E keep \in SUBSET (1..Len(in_new_videos)) :
                  /\ transcripts' =
                        [i \in 1..Cardinality(keep) |->
                            WithTranscript(SubsequenceAt(in_new_videos, keep)[i],
                                [method |-> "captions", track |-> "auto",
                                 segments |-> SomeSegments])]
                  /\ llm_responses' \in [1..Cardinality(keep) -> RunResponseInputs]
            /\ env' \in PipelineEnvInputs
            /\ max_clips' = MaxClipsArg
            /\ pc' = "score_start"
    /\ UNCHANGED <<provider, sc_i, all_moments, top_moments, cl_i,
                   processed_clips, cl_log, digest, metadata, qa_report,
                   review_summary>>
    /\ UNCHANGED <<kwVars, vmVars, qaVars, trVars, tsVars, inVars, vtVars>>


\* the answers for the n videos of a run that starts at the scoring stage:
\* one video is answered with any of PipelineResponseInputs, the others
\* with a failure or with two moments
PipelineResponseLists(n) ==
    IF n = 0 THEN {<<>>}
    ELSE { [v \in 1..n |-> IF v = j THEN any ELSE few[v]] :
              j \in 1..n, any \in PipelineResponseInputs,
              few \in [1..n -> { Response("raise", <<>>),
                                Response("array", <<MomentA, MomentB>>) }] }


(***************************************************************************)
(* main.py: run_pipeline from line 60 on, after score_all_transcripts has  *)
(* returned moments for more clips than the post lists                     *)
(***************************************************************************)
\* 20 seconds, score 7
MomentC == FullMoment(TS_0_05, TS_0_25, 7)

\* the answers for n videos: two moments for every video but the last,
\* whose request fails or returns other moments
ManyMomentsResponseLists(n) ==
    { [v \in 1..n |-> IF v = n THEN last
                      ELSE Response("array", <<MomentA, MomentB>>)] :
         last \in { Response("raise", <<>>),
                    Response("array", <<MomentB, MomentA>>),
                    Response("array", <<MomentC>>) } }

\* what score_all_transcripts returns for the transcripts and the answers
scored_moments_of(videos, responses) ==
    [i \in 1..Len(videos) |->
        [video_id |-> Get(videos[i], "video_id", "unknown"),
         raised |-> score_video(videos[i], responses[i]).raised,
         moments |-> score_video(videos[i], responses[i]).moments]]

\* the state when score_all_transcripts has returned, in a run that may
\* keep one clip more than the post lists
ManyMomentsInit ==
    /\ env = Env(TRUE, "sk", TRUE, "")
    /\ transcripts = TranscriptList(MaxVideos + 1)
    /\ llm_responses \in ManyMomentsResponseLists(MaxVideos + 1)
    /\ max_clips = TWITTER_CLIPS + 1
    /\ pc = "select"
    /\ provider = get_llm_client(env)
    /\ sc_i = Len(transcripts) + 1
    /\ all_moments = scored_moments_of(transcripts, llm_responses)
    /\ top_moments = <<>>
    /\ cl_i = 0
    /\ processed_clips = <<>>
    /\ cl_log = <<>>
    /\ digest = NoVideo
    /\ metadata = NoMetadata
    /\ qa_report = NoQaResults
    /\ review_summary = NoSummary


(***************************************************************************)
(* main.py: the module is loaded (lines 13-18) and run_pipeline is called  *)
(***************************************************************************)
\* the names each stage module defines at its top level
ModuleNames ==
    [ ingest |-> {"fetch_url", "parse_rss_entries", "is_press_conference",
                  "extract_person_name", "get_new_videos",
                  "save_videos_to_file"},
      transcribe |-> {"safe_print", "parse_vtt_to_segments", "merge_segments",
                      "vtt_timestamp_to_seconds", "get_captions_ytdlp",
                      "transcribe_with_whisper", "get_transcript",
                      "process_videos", "load_videos", "save_transcripts"},
      score_moments |-> {"get_llm_client", "format_transcript_for_scoring",
                         "score_transcript_anthropic", "score_transcript_groq",
                         "parse_moments_json", "timestamp_to_seconds",
                         "validate_moment", "score_all_transcripts",
                         "get_top_moments"},
      clip_videos |-> {"check_dependencies", "download_clip", "add_overlays",
                       "get_video_duration", "download_and_process_clips",
                       "create_transition"},
      compile_digest |-> {"compile_final_video", "generate_metadata",
                          "generate_thumbnail_text"},
      qa_checks |-> {"check_video_quality", "check_clip_accuracy",
                     "check_content_diversity", "check_timestamps",
                     "check_attribution", "run_qa_checks",
                     "generate_review_report"} ]

\* the from-imports of main.py, in order
MainImports ==
    << [module |-> "ingest", name |-> "get_new_videos"],
       [module |-> "transcribe", name |-> "process_transcripts"],
       [module |-> "score_moments", name |-> "score_all_transcripts"],
       [module |-> "clip_videos", name |-> "download_and_process_clips"],
       [module |-> "compile_digest", name |-> "compile_final_video"],
       [module |-> "compile_digest", name |-> "generate_metadata"],
       [module |-> "qa_checks", name |-> "run_qa_checks"] >>

\* "from m import n" raises ImportError when m does not define n
imports_resolve(imports) ==
    \A k \in 1..Len(imports) : imports[k].name \in ModuleNames[imports[k].module]

\* main.py is about to be run: no stage has started; the feeds are what
\* the channels will answer
MainInit ==
    /\ \E n \in 1..MaxChannels :
          /\ in_channels = SubSeq(ChannelList, 1, n)
          /\ \E f \in OneRichFeedLists(n) :
                in_feeds = [c \in 1..n |-> FeedOfChannel(f[c], c)]
    /\ in_i = 0
    /\ in_new_videos = <<>>
    /\ in_fetches = <<>>
    /\ in_pc = "idle"

\* python main.py: the imports of lines 13-18 run first; when they resolve,
\* run_pipeline is called and its first stage, get_new_videos, starts
LoadMain ==
    /\ pc = "idle"
    /\ in_pc = "idle"
    /\ IF imports_resolve(MainImports)
       THEN /\ in_i' = 1
            /\ in_pc' = "scanning"
            /\ UNCHANGED pc
       ELSE /\ pc' = "import_error"
            /\ UNCHANGED <<in_i, in_pc>>
    /\ UNCHANGED <<in_channels, in_feeds, in_new_videos, in_fetches>>
    /\ UNCHANGED <<env, transcripts, llm_responses, max_clips, provider, sc_i,
                   all_moments, top_moments, cl_i, processed_clips, cl_log,
                   digest, metadata, qa_report, review_summary>>
    /\ UNCHANGED <<kwVars, vmVars, qaVars, trVars, tsVars, vtVars>>


(***************************************************************************)
(* score_moments.py: score_all_transcripts on answers whose timestamps are *)
(* numbers, no numbers, or the float NaN                                   *)
(***************************************************************************)
\* a start time whose seconds are the text "nan"
MomentNaNStart == FullMoment(TS_0_NAN, TS_0_25, 8)
\* an end time whose seconds are the text "nan"
MomentNaNEnd == FullMoment(TS_0_10, TS_0_NAN, 8)

\* the answers to one request: a failure, accepted and rejected moments, a
\* timestamp that raises, and timestamps that parse to NaN
EmitResponseInputs ==
    { Response("raise", <<>>),
      Response("array", <<MomentA>>),
      Response("array", <<MomentA, MomentB>>),
      Response("array", <<MomentLong, MomentB>>),
      Response("array", <<MomentBadTime, MomentA>>),
      Response("array", <<MomentNaNStart>>),
      Response("array", <<MomentA, MomentNaNEnd>>) }


(***************************************************************************)
(* score_moments.py: get_top_moments called on a result of                 *)
(* score_all_transcripts                                                   *)
(***************************************************************************)
\* flat_moments after the loop: the lists of the videos, in the order of
\* the dict, one after the other
flat_moments_of(scored_moments) ==
    Flatten([i \in 1..Len(scored_moments) |-> scored_moments[i].moments])

\* get_top_moments sorting by ascending score (reverse=True forgotten)
get_top_moments_ascending(scored_moments, max_count) ==
    LET sorted == SortByScoreDesc(flat_moments_of(scored_moments))
    IN Take([k \in 1..Len(sorted) |-> sorted[Len(sorted) + 1 - k]], max_count)

\* get_top_moments: flatten, sort by score with the highest first (the sort
\* is stable), keep the first max_count
get_top_moments(scored_moments, max_count) ==
    Take(SortByScoreDesc(flat_moments_of(scored_moments)), max_count)

\* the answers whose moments get_top_moments is called on: none, one, two
\* in both orders of score, two of equal score
TopResponseInputs ==
    { Response("array", <<>>),
      Response("array", <<MomentC>>),
      Response("array", <<MomentA, MomentB>>),
      Response("array", <<MomentB, MomentA>>),
      Response("array", <<MomentC, WithHeadline(MomentC, HEADLINE_INJURY)>>) }

\* get_top_moments is called with the result of score_all_transcripts for
\* up to MaxVideos videos and with a count of up to MaxClipsArg
TopInit ==
    /\ env = Env(TRUE, "sk", TRUE, "")
    /\ \E n \in 0..MaxVideos :
          /\ transcripts = TranscriptList(n)
          /\ llm_responses \in [1..n -> TopResponseInputs]
    /\ max_clips \in 0..MaxClipsArg
    /\ pc = "top_call"
    /\ provider = get_llm_client(env)
    /\ sc_i = Len(transcripts) + 1
    /\ all_moments = scored_moments_of(transcripts, llm_responses)
    /\ top_moments = <<>>
    /\ cl_i = 0
    /\ processed_clips = <<>>
    /\ cl_log = <<>>
    /\ digest = NoVideo
    /\ metadata = NoMetadata
    /\ qa_report = NoQaResults
    /\ review_summary = NoSummary

GetTopMoments ==
    /\ pc = "top_call"
    /\ top_moments' = get_top_moments(all_moments, max_clips)
    /\ pc' = "top_done"
    /\ UNCHANGED <<env, transcripts, llm_responses, max_clips, provider, sc_i,
                   all_moments, cl_i, processed_clips, cl_log, digest,
                   metadata, qa_report, review_summary>>
    /\ UNCHANGED notPl


(***************************************************************************)
(* transcribe.py: parse_vtt_to_segments.  A text is a sequence of          *)
(* characters; times are whole milliseconds (the timestamps of a .vtt file *)
(* have three decimals).                                                   *)
(***************************************************************************)
MaxVttLines == 4

IsSpace(c) == c \in {" ", "\t", "\r"}

\* str.strip()
RECURSIVE strip(_)
strip(s) ==
    IF Len(s) = 0 THEN s
    ELSE IF IsSpace(s[1]) THEN strip(Tail(s))
    ELSE IF IsSpace(s[Len(s)]) THEN strip(SubSeq(s, 1, Len(s) - 1))
    ELSE s

\* str.split('\n'): always at least one line
RECURSIVE split_newline(_)
split_newline(s) ==
    IF \A p \in 1..Len(s) : s[p] # "\n" THEN <<s>>
    ELSE LET p == CHOOSE q \in 1..Len(s) :
                     /\ s[q] = "\n"
                     /\ \A r \in 1..(q - 1) : s[r] # "\n"
         IN <<SubSeq(s, 1, p - 1)>> \o split_newline(SubSeq(s, p + 1, Len(s)))

\* \d{2}:\d{2}:\d{2}\.\d{3} matches at position p of s
StampAt(s, p) ==
    /\ p >= 1
    /\ Len(s) >= p + 11
    /\ \A k \in {0, 1, 3, 4, 6, 7, 9, 10, 11} : IsDigit(s[p + k])
    /\ s[p + 2] = ":"
    /\ s[p + 5] = ":"
    /\ s[p + 8] = "."

\* where \s* started at position p ends
RECURSIVE SkipSpaces(_, _)
SkipSpaces(s, p) ==
    IF p <= Len(s) /\ IsSpace(s[p]) THEN SkipSpaces(s, p + 1) ELSE p

\* re.match of the cue pattern (stamp, \s*, -->, \s*, stamp) on a line: the
\* two groups, or <<>> without a match
timestamp_match(line) ==
    IF ~StampAt(line, 1) THEN <<>>
    ELSE LET a == SkipSpaces(line, 13) IN
         IF ~(a + 2 <= Len(line) /\ SubSeq(line, a, a + 2) = <<"-", "-", ">">>)
         THEN <<>>
         ELSE LET b == SkipSpaces(line, a + 3) IN
              IF StampAt(line, b)
              THEN <<SubSeq(line, 1, 12), SubSeq(line, b, b + 11)>>
              ELSE <<>>

\* vtt_timestamp_to_seconds, in milliseconds
vtt_timestamp_to_seconds(timestamp) ==
    LET hours == DigitsValue(SubSeq(timestamp, 1, 2))
        minutes == DigitsValue(SubSeq(timestamp, 4, 5))
        seconds == DigitsValue(SubSeq(timestamp, 7, 8)) * 1000
                       + DigitsValue(SubSeq(timestamp, 10, 12))
    IN hours * 3600000 + minutes * 60000 + seconds

\* re.sub(r'<[^>]+>', '', s): every tag, from a "<" up to the first ">"
\* at least two characters later, is removed
RECURSIVE remove_tags(_)
remove_tags(s) ==
    IF Len(s) = 0 THEN s
    ELSE LET closes == { q \in 3..Len(s) :
                            /\ s[q] = ">"
                            /\ \A r \in 2..(q - 1) : s[r] # ">" }
         IN IF s[1] = "<" /\ closes # {}
            THEN LET q == CHOOSE c \in closes : TRUE
                 IN remove_tags(SubSeq(s, q + 1, Len(s)))
            ELSE <<s[1]>> \o remove_tags(Tail(s))

\* ' '.join(text_lines)
RECURSIVE join_spaces(_)
join_spaces(text_lines) ==
    IF Len(text_lines) = 0 THEN <<>>
    ELSE IF Len(text_lines) = 1 THEN text_lines[1]
    ELSE text_lines[1] \o <<" ">> \o join_spaces(Tail(text_lines))

\* the inner loop stops at this line: blank, or beginning with a timestamp
ends_cue_text(text_line) ==
    Len(text_line) = 0 \/ StampAt(text_line, 1)

\* merge_segments: a segment whose text, stripped and in lower case, was
\* seen before is dropped
RECURSIVE merge_from(_, _)
merge_from(segments, seen_texts) ==
    IF Len(segments) = 0 THEN <<>>
    ELSE LET seg == Head(segments)
             text_key == Lower(strip(seg.text))
         IN IF text_key \in seen_texts
            THEN merge_from(Tail(segments), seen_texts)
            ELSE <<seg>> \o merge_from(Tail(segments),
                                       seen_texts \cup {text_key})

merge_segments(segments) == merge_from(segments, {})

\* one pass of the outer loop at a line that is a cue line, without the
\* "i += 1" before the inner loop: the inner loop starts at the cue line
outer_iteration_rereads(lines, i) ==
    LET line == strip(lines[i + 1])
        groups == timestamp_match(line)
    IN IF groups # <<>>
       THEN [i |-> i,
             pc |-> "inner",
             cue |-> [start |-> vtt_timestamp_to_seconds(groups[1]),
                      duration |-> vtt_timestamp_to_seconds(groups[2])
                                     - vtt_timestamp_to_seconds(groups[1])]]
       ELSE [i |-> i + 1, pc |-> "outer", cue |-> [start |-> 0, duration |-> 0]]

\* one pass of the outer loop up to the inner loop: at a cue line the times
\* are read and i moves to the next line, where the inner loop starts; at
\* any other line i moves to the next line
outer_iteration(lines, i) ==
    LET line == strip(lines[i + 1])
        groups == timestamp_match(line)
    IN IF groups # <<>>
       THEN [i |-> i + 1,
             pc |-> "inner",
             cue |-> [start |-> vtt_timestamp_to_seconds(groups[1]),
                      duration |-> vtt_timestamp_to_seconds(groups[2])
                                     - vtt_timestamp_to_seconds(groups[1])]]
       ELSE [i |-> i + 1, pc |-> "outer", cue |-> [start |-> 0, duration |-> 0]]

\* "00:00:01.000 --> 00:00:03.000"
LINE_CUE ==
    <<"0","0",":","0","0",":","0","1",".","0","0","0"," ","-","-",">"," ","0","0",":","0","0",":","0","3",".","0","0","0">>
\* " 00:00:03.000-->00:01:05.500 align:start"
LINE_CUE_SETTINGS ==
    <<" ","0","0",":","0","0",":","0","3",".","0","0","0","-","-",">","0","0",":","0","1",":","0","5",".","5","0","0"," ","a","l","i","g","n",":","s","t","a","r","t">>
\* "00:00:04.000 now"
LINE_STAMP_TEXT ==
    <<"0","0",":","0","0",":","0","4",".","0","0","0"," ","n","o","w">>
\* " Hi"
LINE_TEXT ==
    <<" ","H","i">>
\* "<c>hi</c>"
LINE_TAGGED ==
    <<"<","c",">","h","i","<","/","c",">">>
\* "<c>"
LINE_TAG_ONLY ==
    <<"<","c",">">>

\* the lines a text is made of: two cue lines (one with a leading space, no
\* spaces around the arrow and cue settings), a line that begins with a
\* timestamp and is no cue line, an empty line, text, text in tags, a tag
VttLineInputs ==
    { LINE_CUE, LINE_CUE_SETTINGS, LINE_STAMP_TEXT, <<>>, LINE_TEXT,
      LINE_TAGGED, LINE_TAG_ONLY }

\* '\n'.join(lines)
RECURSIVE join_newline(_)
join_newline(lines) ==
    IF Len(lines) = 1 THEN lines[1]
    ELSE lines[1] \o <<"\n">> \o join_newline(Tail(lines))

NoCue == [start |-> 0, duration |-> 0]

VtIdle ==
    /\ vt_content = <<>>
    /\ vt_lines = <<>>
    /\ vt_i = 0
    /\ vt_cue = NoCue
    /\ vt_text_lines = <<>>
    /\ vt_segments = <<>>
    /\ vt_pc = "idle"
    /\ vt_result = <<>>
    /\ vt_examined = {}

\* before parse_vtt_to_segments is called
VtInit ==
    /\ vt_content = <<>>
    /\ vt_lines = <<>>
    /\ vt_i = 0
    /\ vt_cue = NoCue
    /\ vt_text_lines = <<>>
    /\ vt_segments = <<>>
    /\ vt_pc = "call"
    /\ vt_result = <<>>
    /\ vt_examined = {}

\* parse_vtt_to_segments is called with a text of 1..MaxVttLines lines:
\* segments = [], lines = vtt_content.split('\n'), i = 0
SplitLines ==
    /\ vt_pc = "call"
    /\ \E n \in 1..MaxVttLines : \E lines \in [1..n -> VttLineInputs] :
          vt_content' = join_newline(lines)
    /\ vt_lines' = split_newline(vt_content')
    /\ vt_i' = 0
    /\ vt_segments' = <<>>
    /\ vt_pc' = "outer"
    /\ UNCHANGED <<vt_cue, vt_text_lines, vt_result, vt_examined>>
    /\ UNCHANGED notVt

\* "while i < len(lines)" holds: the line is examined
OuterIteration ==
    /\ vt_pc = "outer"
    /\ vt_i < Len(vt_lines)
    /\ LET after == outer_iteration(vt_lines, vt_i) IN
          /\ vt_i' = after.i
          /\ vt_pc' = after.pc
          /\ vt_cue' = after.cue
    /\ vt_text_lines' = <<>>
    /\ vt_examined' = vt_examined \cup {<<"outer", vt_i>>}
    /\ UNCHANGED <<vt_content, vt_lines, vt_segments, vt_result>>
    /\ UNCHANGED notVt

\* the inner loop goes on: the line is text of the cue
InnerIteration ==
    /\ vt_pc = "inner"
    /\ vt_i < Len(vt_lines)
    /\ ~ends_cue_text(strip(vt_lines[vt_i + 1]))
    /\ vt_text_lines' =
          Append(vt_text_lines, remove_tags(strip(vt_lines[vt_i + 1])))
    /\ vt_i' = vt_i + 1
    /\ vt_examined' = vt_examined \cup {<<"inner", vt_i>>}
    /\ UNCHANGED <<vt_content, vt_lines, vt_cue, vt_segments, vt_pc, vt_result>>
    /\ UNCHANGED notVt

\* the inner loop ends, at the end of the lines or by "break" at a line that
\* is left for the outer loop; the cue is appended if it has text
InnerExit ==
    /\ vt_pc = "inner"
    /\ \/ vt_i >= Len(vt_lines)
       \/ /\ vt_i < Len(vt_lines)
          /\ ends_cue_text(strip(vt_lines[vt_i + 1]))
    /\ vt_examined' = IF vt_i < Len(vt_lines)
                      THEN vt_examined \cup {<<"inner", vt_i>>}
                      ELSE vt_examined
    /\ LET text == join_spaces(vt_text_lines) IN
          vt_segments' = IF Len(text) > 0
                         THEN Append(vt_segments,
                                     [start |-> vt_cue.start,
                                      duration |-> vt_cue.duration,
                                      text |-> text])
                         ELSE vt_segments
    /\ vt_pc' = "outer"
    /\ UNCHANGED <<vt_content, vt_lines, vt_i, vt_cue, vt_text_lines, vt_result>>
    /\ UNCHANGED notVt

\* "while i < len(lines)" fails: return merge_segments(segments)
ReturnSegments ==
    /\ vt_pc = "outer"
    /\ vt_i >= Len(vt_lines)
    /\ vt_result' = merge_segments(vt_segments)
    /\ vt_pc' = "done"
    /\ UNCHANGED <<vt_content, vt_lines, vt_i, vt_cue, vt_text_lines,
                   vt_segments, vt_examined>>
    /\ UNCHANGED notVt


(***************************************************************************)
(* Specifications                                                          *)
(***************************************************************************)
InitKeyword == KwInit /\ VmIdle /\ QaIdle /\ TrIdle /\ PlIdle /\ TsIdle /\ InIdle /\ VtIdle
NextKeyword == AddTitleFragment \/ ClassifyTitle
SpecKeyword == InitKeyword /\ [][NextKeyword]_vars

InitValidate == KwIdle /\ VmInit /\ QaIdle /\ TrIdle /\ PlIdle /\ TsIdle /\ InIdle /\ VtIdle
NextValidate == ValidateMoment
SpecValidate == InitValidate /\ [][NextValidate]_vars

InitQa == KwIdle /\ VmIdle /\ QaInit /\ TrIdle /\ PlIdle /\ TsIdle /\ InIdle /\ VtIdle
NextQa == QaAddClip \/ RunQaChecks
SpecQa == InitQa /\ [][NextQa]_vars

InitDiversity == KwIdle /\ VmIdle /\ DiversityInit /\ TrIdle /\ PlIdle /\ TsIdle /\ InIdle /\ VtIdle
NextDiversity == QaAddTeamClip \/ RunQaChecks
SpecDiversity == InitDiversity /\ [][NextDiversity]_vars

InitTranscribe == KwIdle /\ VmIdle /\ QaIdle /\ TrInit /\ PlIdle /\ TsIdle /\ InIdle /\ VtIdle
NextTranscribe == ProcessVideo \/ ReturnTranscripts
SpecTranscribe == InitTranscribe /\ [][NextTranscribe]_vars

InitScore == KwIdle /\ VmIdle /\ QaIdle /\ TrIdle /\ PlStartWith(FewEnvInputs, OneRichResponseLists) /\ TsIdle /\ InIdle /\ VtIdle
NextScore == GetLlmClient \/ ScoreVideo \/ ReturnMoments
SpecScore == InitScore /\ [][NextScore]_vars

Init == KwIdle /\ VmIdle /\ QaIdle /\ TrIdle /\ PlStartWith(PipelineEnvInputs, PipelineResponseLists) /\ TsIdle /\ InIdle /\ VtIdle
Next ==
    \/ GetLlmClient
    \/ ScoreVideo
    \/ ReturnMoments
    \/ SelectTopMoments
    \/ CheckDependencies
    \/ ClipMoment
    \/ ReturnClips
    \/ CompileFinalVideo
    \/ GenerateMetadata
    \/ RunPipelineQa
Spec == Init /\ [][Next]_vars

InitClient == KwIdle /\ VmIdle /\ QaIdle /\ TrIdle /\ PlStart(EnvInputs, FewResponseInputs) /\ TsIdle /\ InIdle /\ VtIdle
SpecClient == InitClient /\ [][NextScore]_vars

InitMetadata == KwIdle /\ VmIdle /\ QaIdle /\ TrIdle /\ MetaInit /\ TsIdle /\ InIdle /\ VtIdle
NextMetadata == GenerateMetadata
SpecMetadata == InitMetadata /\ [][NextMetadata]_vars


InitTimestamp == KwIdle /\ VmIdle /\ QaIdle /\ TrIdle /\ PlIdle /\ TsInit /\ InIdle /\ VtIdle
NextTimestamp == ParseTimestamp \/ FormatSeconds
SpecTimestamp == InitTimestamp /\ [][NextTimestamp]_vars


InitIngest == KwIdle /\ VmIdle /\ QaIdle /\ TrIdle /\ PlIdle /\ TsIdle /\ InInit /\ VtIdle
NextIngest == ScanChannel \/ ReturnVideos
SpecIngest == InitIngest /\ [][NextIngest]_vars


InitRun ==
    KwIdle /\ VmIdle /\ QaIdle /\ TrIdle /\ PlIdle /\ TsIdle
        /\ InStartWith(RunFeedLists) /\ VtIdle
NextRun ==
    \/ ScanChannel
    \/ ReturnVideos
    \/ TranscribeStage
    \/ GetLlmClient
    \/ ScoreVideo
    \/ ReturnMoments
    \/ SelectTopMoments
    \/ CheckDependencies
    \/ ClipMoment
    \/ ReturnClips
SpecRun == InitRun /\ [][NextRun]_vars


InitManyMoments == KwIdle /\ VmIdle /\ QaIdle /\ TrIdle /\ ManyMomentsInit /\ TsIdle /\ InIdle /\ VtIdle
NextManyMoments ==
    \/ SelectTopMoments
    \/ CheckDependencies
    \/ ClipMoment
    \/ ReturnClips
    \/ CompileFinalVideo
    \/ GenerateMetadata
SpecManyMoments == InitManyMoments /\ [][NextManyMoments]_vars


InitMain == KwIdle /\ VmIdle /\ QaIdle /\ TrIdle /\ PlIdle /\ TsIdle /\ MainInit /\ VtIdle
NextMain == LoadMain
SpecMain == InitMain /\ [][NextMain]_vars


InitEmit == KwIdle /\ VmIdle /\ QaIdle /\ TrIdle /\ PlStart(FewEnvInputs, EmitResponseInputs) /\ TsIdle /\ InIdle /\ VtIdle
NextEmit ==
    \/ GetLlmClient
    \/ ScoreVideo
    \/ ReturnMoments
SpecEmit == InitEmit /\ [][NextEmit]_vars


InitTop == KwIdle /\ VmIdle /\ QaIdle /\ TrIdle /\ TopInit /\ TsIdle /\ InIdle /\ VtIdle
NextTop == GetTopMoments
SpecTop == InitTop /\ [][NextTop]_vars


InitVtt == KwIdle /\ VmIdle /\ QaIdle /\ TrIdle /\ PlIdle /\ TsIdle /\ InIdle /\ VtInit
NextVtt == SplitLines \/ OuterIteration \/ InnerIteration \/ InnerExit \/ ReturnSegments
SpecVtt == InitVtt /\ [][NextVtt]_vars


(***************************************************************************)
(* Claims                                                                  *)
(***************************************************************************)
StartOf(moment) == timestamp_to_seconds(moment["start_time"])
EndOf(moment) == timestamp_to_seconds(moment["end_time"])

HasRequiredFields(moment) ==
    {"start_time", "end_time", "headline", "score"} \subseteq DOMAIN moment

TimestampsParse(moment) ==
    /\ ~timestamp_raises(moment["start_time"])
    /\ ~timestamp_raises(moment["end_time"])


\* C1: validate_moment accepts a moment exactly when it has the four
\* required fields, 0 <= start < end, end <= transcript duration + 10 and
\* 10 <= end - start <= 90; a moment with start=10,end=5 and a moment of 95
\* seconds are rejected, a moment of exactly 15 seconds inside the
\* transcript is accepted.
C1_ValidateMomentAcceptsExactly ==
    vm_pc = "done" =>
      /\ (vm_result = "True") <=>
           /\ HasRequiredFields(vm_moment)
           /\ TimestampsParse(vm_moment)
           /\ 0 <= StartOf(vm_moment)
           /\ StartOf(vm_moment) < EndOf(vm_moment)
           /\ EndOf(vm_moment) <= vm_duration + 10
           /\ EndOf(vm_moment) - StartOf(vm_moment) >= 10
           /\ EndOf(vm_moment) - StartOf(vm_moment) <= 90
      /\ HasRequiredFields(vm_moment) =>
           /\ (vm_moment["start_time"] = TS_0_10
                 /\ vm_moment["end_time"] = TS_0_05) => vm_result = "False"
           /\ (vm_moment["start_time"] = TS_0_10
                 /\ vm_moment["end_time"] = TS_1_45) => vm_result = "False"
           /\ (vm_moment["start_time"] = TS_0_10
                 /\ vm_moment["end_time"] = TS_0_25) => vm_result = "True"

\* a moment of exactly 15 seconds inside the transcript has been accepted
C1_Witness ==
    /\ vm_pc = "done"
    /\ vm_result = "True"
    /\ EndOf(vm_moment) - StartOf(vm_moment) = 15
    /\ EndOf(vm_moment) <= vm_duration

\* C2: every title that contains an exclude keyword (case-insensitive
\* substring) is classified negative, whatever include keywords it contains.
C2_ExcludeTakesPrecedence ==
    (kw_pc = "done"
       /\ \E k \in 1..Len(EXCLUDE_KEYWORDS) :
             Contains(EXCLUDE_KEYWORDS[k], Lower(kw_title)))
    => kw_result = FALSE

\* a classified title that contains both an exclude and an include keyword
C2_Witness ==
    /\ kw_pc = "done"
    /\ \E k \in 1..Len(EXCLUDE_KEYWORDS) :
          Contains(EXCLUDE_KEYWORDS[k], Lower(kw_title))
    /\ \E k \in 1..Len(PRESS_CONFERENCE_KEYWORDS) :
          Contains(PRESS_CONFERENCE_KEYWORDS[k], Lower(kw_title))
    /\ kw_result = FALSE

\* C5 as stated: in one run of process_videos the number of fallback
\* (Whisper) transcription attempts never exceeds max_whisper.
C5_WhisperAttemptsBounded == tr_whisper_attempts <= tr_max_whisper

\* the entry of results for the video at position i of the input
TrResultOf(i) ==
    LET hits == SelectSeq(tr_results,
                    LAMBDA r : r.video_id = tr_videos[i].video_id)
    IN IF Len(hits) = 0 THEN NoTranscript ELSE hits[1].transcript

\* C6 as stated: a video that has both caption tracks gets its captions
\* transcript from the manual captions, and auto-generated captions are
\* used only for a video without manual captions.
C6_ManualPreferred ==
    \A i \in 1..Len(tr_log) :
       /\ (tr_videos[i].has_auto /\ tr_videos[i].has_manual
             /\ TrResultOf(i).method = "captions")
          => TrResultOf(i).track = "manual"
       /\ TrResultOf(i).track = "auto" => ~tr_videos[i].has_manual

\* C6 (amended): auto-generated captions are preferred over manual ones.
\* They are requested first; when that request leaves a caption file the
\* manual captions are not requested and a captions transcript comes from
\* the auto-generated track; the manual captions are requested only when the
\* first request ended without a file, and a transcript comes from them only
\* then.
C6_AutoPreferred ==
    \A i \in 1..Len(tr_log) :
       /\ tr_log[i].auto_run = "file" =>
            /\ tr_log[i].manual_run = "skipped"
            /\ TrResultOf(i).method = "captions" => TrResultOf(i).track = "auto"
       /\ tr_log[i].manual_run # "skipped" => tr_log[i].auto_run = "nofile"
       /\ TrResultOf(i).track = "manual" =>
            /\ tr_log[i].auto_run = "nofile"
            /\ tr_log[i].manual_run = "file"
       /\ TrResultOf(i).track = "auto" => tr_log[i].auto_run = "file"

\* a video with both tracks got its transcript from the auto-generated
\* captions, and another one from the manual captions after the first
\* request left no file
C6_Witness ==
    /\ tr_i = 0
    /\ \E i \in 1..Len(tr_log) :
          /\ tr_videos[i].has_auto /\ tr_videos[i].has_manual
          /\ TrResultOf(i).track = "auto"
    /\ \E i \in 1..Len(tr_log) :
          /\ tr_videos[i].has_auto /\ tr_videos[i].has_manual
          /\ TrResultOf(i).track = "manual"

\* scoring the video at position i fails: the LLM request raises, or the
\* conversion of a timestamp of one of the parsed moments raises
ScoringFails(i) ==
    \/ llm_responses[i].kind = "raise"
    \/ \E k \in 1..Len(parse_moments_json(llm_responses[i])) :
          LET m == parse_moments_json(llm_responses[i])[k] IN
          /\ HasRequiredFields(m)
          /\ ~TimestampsParse(m)

\* the moments of the answer for video i that satisfy the validity
\* conditions, in the order of the answer
AcceptableMoments(i) ==
    SelectSeq(parse_moments_json(llm_responses[i]),
        LAMBDA m : /\ HasRequiredFields(m)
                   /\ TimestampsParse(m)
                   /\ 0 <= StartOf(m)
                   /\ StartOf(m) < EndOf(m)
                   /\ EndOf(m) <= transcript_duration(transcripts[i]) + 10
                   /\ EndOf(m) - StartOf(m) >= 10
                   /\ EndOf(m) - StartOf(m) <= 90)

\* C7: a failure while scoring one video is caught: once the provider is
\* selected the loop never aborts, the result maps a video whose scoring
\* failed to the empty list, and every other video of the input is scored:
\* its entry holds its valid moments.
C7_ScoringFailureIsPerVideo ==
    /\ pc = "failed" => provider = "none"
    /\ pc \in {"scoring", "select"} =>
         \A i \in 1..Len(all_moments) :
            /\ all_moments[i].video_id = transcripts[i].video_id
            /\ ScoringFails(i) => all_moments[i].moments = <<>>
            /\ ~ScoringFails(i) =>
                 /\ Len(all_moments[i].moments) = Len(AcceptableMoments(i))
                 /\ \A k \in 1..Len(all_moments[i].moments) :
                       /\ all_moments[i].moments[k]["start_time"]
                            = AcceptableMoments(i)[k]["start_time"]
                       /\ all_moments[i].moments[k]["headline"]
                            = AcceptableMoments(i)[k]["headline"]
    /\ pc = "select" => Len(all_moments) = Len(transcripts)

\* the scoring of the first video failed once on the request and, in
\* another run, on a timestamp; the second video has its moments
C7_Witness ==
    /\ pc = "select"
    /\ Len(transcripts) >= 2
    /\ ScoringFails(1)
    /\ llm_responses[1].kind = "array"
    /\ all_moments[1].moments = <<>>
    /\ Len(all_moments[2].moments) = 2

AnthropicUsable == env.anthropic_available /\ env.anthropic_key # ""
GroqUsable == env.groq_available /\ env.groq_key # ""

\* C8: get_llm_client selects Anthropic whenever its key is set and its
\* library imports, selects Groq only when Anthropic is not usable and the
\* Groq key is set, and raises when neither is usable; score_all_transcripts
\* on a non-empty list then halts without returning moments.
C8_ProviderSelection ==
    (pc # "score_start" /\ Len(transcripts) > 0) =>
      /\ AnthropicUsable => provider = "anthropic"
      /\ provider = "groq" => (~AnthropicUsable /\ env.groq_key # "")
      /\ (~AnthropicUsable /\ GroqUsable) => provider = "groq"
      /\ (~AnthropicUsable /\ ~GroqUsable) <=> pc = "failed"
      /\ pc = "failed" => (all_moments = <<>> /\ provider = "none" /\ sc_i = 0)

\* neither backend is usable although one key is set, and the call on a
\* non-empty list has halted
C8_Witness ==
    /\ pc = "failed"
    /\ Len(transcripts) > 0
    /\ env.anthropic_key # ""
    /\ ~env.anthropic_available
    /\ all_moments = <<>>

\* the number of valid moments the scoring stage produced
NumValidMoments ==
    Len(Flatten([i \in 1..Len(all_moments) |-> all_moments[i].moments]))

\* the moments whose download succeeded
Downloaded == {i \in 1..Len(cl_log) : cl_log[i].download = "ok"}

\* C3 as stated: after scoring, clipping and compiling, clip_count of the
\* metadata equals the number of valid moments the scoring stage produced.
C3_ClipCountIsValidMoments ==
    pc = "done" => metadata.clip_count = NumValidMoments

\* C3 (amended): clip_count equals the number of processed clips, which are
\* the moments among the max_clips top-scored valid moments whose download
\* succeeded; it equals the number of valid moments when there are at most
\* max_clips of them and no download fails.
C3_ClipCountIsDownloadedTopMoments ==
    pc = "done" =>
      /\ metadata.clip_count = Len(processed_clips)
      /\ metadata.clip_count = Cardinality(Downloaded)
      /\ Len(cl_log) = Min(max_clips, NumValidMoments)
      /\ \A k \in 1..Len(processed_clips) :
            /\ processed_clips[k]["clip_index"] \in Downloaded
            /\ \A j \in 1..(k - 1) :
                  processed_clips[j]["clip_index"] < processed_clips[k]["clip_index"]
      /\ (NumValidMoments <= max_clips /\ Cardinality(Downloaded) = Len(cl_log))
            => metadata.clip_count = NumValidMoments

\* more valid moments than max_clips, one download failed, clips remain
C3_Witness ==
    /\ pc = "done"
    /\ NumValidMoments > max_clips
    /\ Cardinality(Downloaded) < Len(cl_log)
    /\ metadata.clip_count >= 2

RECURSIVE SumMeasured(_)
SumMeasured(log) ==
    IF Len(log) = 0 THEN 0
    ELSE (IF Head(log).download = "ok" THEN Head(log).measured ELSE 0)
           + SumMeasured(Tail(log))

Range(seq) == {seq[i] : i \in 1..Len(seq)}

QaCheckFailed(name) ==
    /\ name \in DOMAIN qa_results.checks
    /\ ~qa_results.checks[name].passed

\* C9: run_qa_checks sets all_passed to false exactly when the timestamp
\* check, the attribution check or a video-quality check that was run fails;
\* the warnings of the clip-accuracy and content-diversity checks go to the
\* warnings list, never to the errors, and do not change all_passed.
C9_AllPassedFalseExactly ==
    qa_pc = "done" =>
      /\ (qa_results.all_passed = FALSE) <=>
           \/ QaCheckFailed("timestamps")
           \/ QaCheckFailed("attribution")
           \/ QaCheckFailed("video_quality")
      /\ ("video_quality" \in DOMAIN qa_results.checks)
           <=> (qa_video.path /\ qa_video.exists)
      /\ \A name \in {"clip_accuracy", "content_diversity"} :
           /\ Range(qa_results.checks[name].warnings) \subseteq Range(qa_results.warnings)
           /\ Range(qa_results.checks[name].warnings) \cap Range(qa_results.errors) = {}

\* the clip-accuracy and the content-diversity check both failed and the
\* run passed
C9_Witness ==
    /\ qa_pc = "done"
    /\ QaCheckFailed("clip_accuracy")
    /\ QaCheckFailed("content_diversity")
    /\ qa_results.all_passed = TRUE

\* the content-diversity check reported team as over-represented
OverRepresentationReported(team) ==
    /\ \E k \in 1..Len(qa_results.checks["content_diversity"].warnings) :
          /\ qa_results.checks["content_diversity"].warnings[k].text = "Over-represented"
          /\ qa_results.checks["content_diversity"].warnings[k].arg = team
    /\ ~qa_results.checks["content_diversity"].passed

\* C10 as stated: whenever a team supplies more than 50% of the clips, the
\* content-diversity check reports it as over-represented and does not pass.
C10_OverRepresentedAbove50 ==
    qa_pc = "done" =>
      \A i \in 1..Len(qa_clips) :
         2 * TeamCount(qa_clips, TeamOf(qa_clips[i])) > Len(qa_clips)
         => OverRepresentationReported(TeamOf(qa_clips[i]))

\* C10 (amended): whenever there are more than 3 clips and a team supplies
\* more than 50% of them, the content-diversity check reports that team as
\* over-represented and does not pass.
C10_OverRepresentedAbove50OfMoreThan3 ==
    qa_pc = "done" =>
      \A i \in 1..Len(qa_clips) :
         (Len(qa_clips) > 3
            /\ 2 * TeamCount(qa_clips, TeamOf(qa_clips[i])) > Len(qa_clips))
         => OverRepresentationReported(TeamOf(qa_clips[i]))

\* 10 clips, 6 of them from one team, and the warning was reported
C10_Witness ==
    /\ qa_pc = "done"
    /\ Len(qa_clips) = 10
    /\ TeamCount(qa_clips, "Lakers") = 6
    /\ OverRepresentationReported("Lakers")

(***************************************************************************)
(* C11: in generate_metadata the timestamp of the k-th clip is the sum of  *)
(* the durations of the clips before it, written as minutes:seconds with   *)
(* two-digit seconds; the first clip is at 0:00 and with durations         *)
(* [30, 40, 20] the third clip is at 1:10.  The duration of a clip is its  *)
(* actual_duration, else its duration, else 30.                            *)
(***************************************************************************)
\* the duration of a clip
DurationOfClip(clip) ==
    IF "actual_duration" \in DOMAIN clip THEN clip["actual_duration"]
    ELSE IF "duration" \in DOMAIN clip THEN clip["duration"]
    ELSE 30

RECURSIVE SumDurationsBefore(_, _)
SumDurationsBefore(clips, k) ==
    IF k <= 1 THEN 0
    ELSE DurationOfClip(clips[k - 1]) + SumDurationsBefore(clips, k - 1)

\* text is minutes:seconds with two-digit seconds below 60 and stands for n seconds
IsMinutesSeconds(text, n) ==
    LET parts == SplitColon(text) IN
    /\ Len(parts) = 2
    /\ IsIntLiteral(parts[1]) /\ IsIntLiteral(parts[2])
    /\ Len(parts[2]) = 2
    /\ IntValue(parts[2]) < 60
    /\ 60 * IntValue(parts[1]) + IntValue(parts[2]) = n

TS_0_00 == <<"0", ":", "0", "0">>
TS_1_10 == <<"1", ":", "1", "0">>

C11_TimestampIsSumOfPriorDurations ==
    pc = "qa" =>
        /\ Len(metadata.timestamps) = Len(processed_clips)
        /\ \A k \in 1..Len(processed_clips) :
              IsMinutesSeconds(metadata.timestamps[k].timestamp,
                               SumDurationsBefore(processed_clips, k))
        /\ Len(processed_clips) >= 1 => metadata.timestamps[1].timestamp = TS_0_00
        /\ ( /\ Len(processed_clips) >= 3
             /\ DurationOfClip(processed_clips[1]) = 30
             /\ DurationOfClip(processed_clips[2]) = 40 )
           => metadata.timestamps[3].timestamp = TS_1_10

\* the durations are [30, 40, 20] and the third clip is at 1:10
C11_Witness ==
    /\ pc = "qa"
    /\ Len(processed_clips) = 3
    /\ DurationOfClip(processed_clips[1]) = 30
    /\ DurationOfClip(processed_clips[2]) = 40
    /\ DurationOfClip(processed_clips[3]) = 20
    /\ metadata.timestamps[3].timestamp = TS_1_10


(***************************************************************************)
(* C12: timestamp_to_seconds maps every M:SS string to 60*M + SS and every *)
(* H:MM:SS string to 3600*H + 60*MM + SS; "2:34" gives 154 and "1:02:03"   *)
(* gives 3723.                                                             *)
(***************************************************************************)
TS_2_34 == <<"2", ":", "3", "4">>
TS_1_02_03 == <<"1", ":", "0", "2", ":", "0", "3">>

C12_TimestampToSeconds ==
    ts_pc \in {"parsed", "formatted"} =>
        /\ ts_form \in {"M:SS", "MM:SS"} =>
              /\ ~ts_result.raised
              /\ ts_result.seconds = 60 * ts_fields[1] + ts_fields[2]
        /\ ts_form = "H:MM:SS" =>
              /\ ~ts_result.raised
              /\ ts_result.seconds
                    = 3600 * ts_fields[1] + 60 * ts_fields[2] + ts_fields[3]
        /\ ts_text = TS_2_34 => ts_result.seconds = 154
        /\ ts_text = TS_1_02_03 => ts_result.seconds = 3723

\* "1:02:03" was converted to 3723
C12_Witness ==
    /\ ts_pc = "parsed"
    /\ ts_text = TS_1_02_03
    /\ ts_form = "H:MM:SS"
    /\ ts_result.seconds = 3723

(***************************************************************************)
(* C13: for every timestamp t of a form the parser accepts (M:SS or        *)
(* H:MM:SS), formatting timestamp_to_seconds(t) with the transcript        *)
(* formatter gives back t.                                                 *)
(***************************************************************************)
C13_RoundTrip ==
    (ts_pc = "formatted" /\ ts_form \in {"M:SS", "H:MM:SS"})
        => ts_back = ts_text

(***************************************************************************)
(* C13 as the code has it: the formatter only writes minutes:seconds.  A   *)
(* timestamp M:SS whose minutes have no leading zero is given back         *)
(* unchanged; any other M:SS or H:MM:SS timestamp is given back as the     *)
(* minutes:seconds text of the same number of seconds (total minutes, no   *)
(* leading zero, two-digit seconds), which the parser converts to the      *)
(* same number of seconds.                                                 *)
(***************************************************************************)
C13_RoundTripCanonical ==
    (ts_pc = "formatted" /\ ts_form \in {"M:SS", "MM:SS", "H:MM:SS"}) =>
        /\ ts_form = "M:SS" => ts_back = ts_text
        /\ IsMinutesSeconds(ts_back, ts_result.seconds)
        /\ ts_back[1] = "0" => Len(ts_back) = 4
        /\ ~timestamp_raises(ts_back)
        /\ timestamp_to_seconds(ts_back) = ts_result.seconds

\* "2:34" came back unchanged
C13_Witness ==
    /\ ts_pc = "formatted"
    /\ ts_form = "M:SS"
    /\ ts_text = TS_2_34
    /\ ts_back = TS_2_34


(***************************************************************************)
(* C14: in download_and_process_clips a moment whose download times out,   *)
(* exits non-zero or leaves no file is skipped and every later moment is   *)
(* still processed; the returned list is the order-preserving subsequence  *)
(* of the input moments whose download succeeded.                          *)
(***************************************************************************)
\* the moment a processed clip was made from
MomentOfClip(clip) == [k \in (DOMAIN clip) \ clip_keys |-> clip[k]]

\* the moments among the first n whose download succeeded, in input order
RECURSIVE DownloadedMoments(_)
DownloadedMoments(n) ==
    IF n = 0 THEN <<>>
    ELSE DownloadedMoments(n - 1)
            \o (IF cl_log[n].download = "ok" THEN <<top_moments[n]>> ELSE <<>>)

ClipsReturned == pc \in {"compile", "metadata", "qa", "done"}

C14_FailedDownloadIsSkipped ==
    /\ pc = "clipping" =>
          /\ Len(cl_log) = cl_i - 1
          /\ [k \in 1..Len(processed_clips) |-> MomentOfClip(processed_clips[k])]
                = DownloadedMoments(Len(cl_log))
    /\ ClipsReturned =>
          /\ Len(cl_log) = Len(top_moments)
          /\ [k \in 1..Len(processed_clips) |-> MomentOfClip(processed_clips[k])]
                = DownloadedMoments(Len(top_moments))

\* the first download failed and the second moment is the first clip returned
C14_Witness ==
    /\ ClipsReturned
    /\ Len(top_moments) >= 2
    /\ cl_log[1].download = "fail"
    /\ cl_log[2].download = "ok"
    /\ Len(processed_clips) >= 1
    /\ processed_clips[1]["clip_index"] = 2

(***************************************************************************)
(* C15: when the overlay rendering of a downloaded clip fails, add_overlays*)
(* leaves the unmodified raw clip at the final clip path and reports       *)
(* success: the moment is in the processed clips and the clip stage goes   *)
(* on to the remaining moments.                                            *)
(***************************************************************************)
ClipOfMoment(i) ==
    { k \in 1..Len(processed_clips) : processed_clips[k]["clip_index"] = i }

RecentPublished ==
    { <<"0", "7", "Z">>, <<"2", "0">> \o UTC_OFFSET, <<"0", "6">> }

\* a well-formed entry of a press conference published since the cutoff
QualifyingEntry(e) ==
    /\ {"title", "video_id", "published"} \subseteq DOMAIN e
    /\ e["title"] = T_COACH_TALKS
    /\ e["published"] \in RecentPublished

C16_ChannelFailureDoesNotAbortScan ==
    /\ in_pc # "raised"
    /\ in_pc = "returned" =>
          /\ Len(in_fetches) = Len(in_channels)
          /\ \A c \in 1..Len(in_channels) :
                /\ in_fetches[c] = in_channels[c].channel_id
                /\ \A k \in 1..Len(in_feeds[c].entries) :
                      QualifyingEntry(in_feeds[c].entries[k]) =>
                          \E v \in 1..Len(in_new_videos) :
                              /\ in_new_videos[v].video_id
                                    = in_feeds[c].entries[k]["video_id"]
                              /\ in_new_videos[v].team = in_channels[c].team

\* the first channel failed and a video of the second one is returned
C16_Witness ==
    /\ in_pc = "returned"
    /\ Len(in_channels) >= 2
    /\ in_feeds[1].kind \in {"none", "invalid", "error"}
    /\ \E v \in 1..Len(in_new_videos) : in_new_videos[v].team = in_channels[2].team

(***************************************************************************)
(* C17: get_new_videos returns its videos sorted by publish time, newest   *)
(* first: of two adjacent videos of the result the earlier one was         *)
(* published at or after the later one.                                    *)
(***************************************************************************)
\* the hour at which the entry of a returned video was published
PublishedHourOf(video) ==
    LET c == CHOOSE c \in 1..Len(in_feeds) :
                 \E k \in 1..Len(in_feeds[c].entries) :
                     in_feeds[c].entries[k]["video_id"] = video.video_id
        k == CHOOSE k \in 1..Len(in_feeds[c].entries) :
                 in_feeds[c].entries[k]["video_id"] = video.video_id
        text == in_feeds[c].entries[k]["published"]
    IN 10 * DigitVal(text[1]) + DigitVal(text[2])

GotTranscript(i) == tr_log[i].captions = "ok" \/ tr_log[i].whisper = "ok"

\* the positions among the first n videos that got a transcript, in order
RECURSIVE TranscribedPositions(_)
TranscribedPositions(n) ==
    IF n = 0 THEN <<>>
    ELSE TranscribedPositions(n - 1) \o (IF GotTranscript(n) THEN <<n>> ELSE <<>>)

C18_ResultIsTranscribedVideos ==
    /\ tr_i >= 1 => Len(tr_log) = tr_i - 1
    /\ tr_i = 0 => Len(tr_log) = Len(tr_videos)
    /\ LET at == TranscribedPositions(Len(tr_log)) IN
       /\ Len(tr_results) = Len(at)
       /\ \A k \in 1..Len(at) :
             /\ DOMAIN tr_results[k] = DOMAIN tr_videos[at[k]] \cup {"transcript"}
             /\ \A f \in DOMAIN tr_videos[at[k]] :
                   tr_results[k][f] = tr_videos[at[k]][f]
             /\ tr_results[k]["transcript"].method
                   = (IF tr_log[at[k]].captions = "ok" THEN "captions" ELSE "whisper")
             /\ tr_results[k]["transcript"].segments # <<>>

\* the first video got no transcript by any method, the second one is returned
C18_Witness ==
    /\ tr_i = 0
    /\ Len(tr_videos) >= 2
    /\ tr_log[1].captions = "fail"
    /\ tr_log[1].whisper = "fail"
    /\ GotTranscript(2)
    /\ Len(tr_results) = 1
    /\ tr_results[1]["video_id"] = tr_videos[2].video_id


(***************************************************************************)
(* C20: every moment in the result of score_all_transcripts has an integer *)
(* score between 1 and 10 inclusive.                                       *)
(***************************************************************************)
C20_ScoreBetween1And10 ==
    pc \in {"scoring", "select"} =>
        \A i \in 1..Len(all_moments) :
            \A k \in 1..Len(all_moments[i].moments) :
                all_moments[i].moments[k]["score"] \in 1..10


(***************************************************************************)
(* C19: no operation is retried.  Within one run the feed of a channel is  *)
(* requested at most once, the LLM is asked at most once for a video, and  *)
(* yt-dlp and ffmpeg are run at most once for the clip of a moment; an     *)
(* item whose attempt failed is not attempted again.                       *)
(***************************************************************************)
\* no element occurs twice in the list
NoRepeats(seq) ==
    \A i \in 1..Len(seq) : \A j \in 1..Len(seq) : seq[i] = seq[j] => i = j

\* the videos the LLM was asked about, one entry per request
ScoringRequests == [i \in 1..Len(all_moments) |-> all_moments[i].video_id]

IsFirstOfMaxScore(clips, i) ==
    /\ \A j \in 1..Len(clips) : clips[j]["score"] <= clips[i]["score"]
    /\ \A j \in 1..Len(clips) : clips[j]["score"] = clips[i]["score"] => i <= j

C21_TitleFromTopClip ==
    pc = "qa" =>
        IF Len(processed_clips) = 0
        THEN metadata.title_hook = DAILY_DIGEST
        ELSE \E i \in 1..Len(processed_clips) :
                /\ IsFirstOfMaxScore(processed_clips, i)
                /\ metadata.title_hook = processed_clips[i]["headline"]

\* the largest score is shared by two clips with different headlines, and
\* the later one is not the first of the list
C21_Witness ==
    /\ pc = "qa"
    /\ \E i \in 1..Len(processed_clips) : \E j \in 1..Len(processed_clips) :
          /\ 1 < i /\ i < j
          /\ IsFirstOfMaxScore(processed_clips, i)
          /\ processed_clips[j]["score"] = processed_clips[i]["score"]
          /\ processed_clips[j]["headline"] # processed_clips[i]["headline"]
          /\ processed_clips[1]["headline"] # processed_clips[i]["headline"]


(***************************************************************************)
(* C22: in a pipeline run the post text lists the headlines of the top     *)
(* four clips of the digest: at most four headlines, all of them when the  *)
(* digest has fewer than four clips, and no clip left out of the post has  *)
(* a higher score than a clip listed in it.                                *)
(***************************************************************************)
\* the headlines listed in the post, in order
PostHeadlines ==
    [k \in 1..Len(metadata.twitter_highlights) |->
        metadata.twitter_highlights[k].headline]

C22_PostListsTopFour ==
    pc = "qa" =>
        LET listed == Len(PostHeadlines) IN
        /\ listed <= 4
        /\ Len(processed_clips) < 4 => listed = Len(processed_clips)
        /\ Len(processed_clips) >= 4 => listed = 4
        /\ \A k \in 1..listed :
              PostHeadlines[k] = processed_clips[k]["headline"]
        /\ \A k \in 1..listed : \A j \in (listed + 1)..Len(processed_clips) :
              processed_clips[j]["score"] <= processed_clips[k]["score"]

\* the digest has five clips of which the post lists four, with clips of
\* different scores among the listed ones
C22_Witness ==
    /\ pc = "qa"
    /\ Len(processed_clips) = 5
    /\ Len(PostHeadlines) = 4
    /\ processed_clips[4]["score"] < processed_clips[1]["score"]


(***************************************************************************)
(* C23: run_pipeline runs the stages in the order ingest, transcribe,      *)
(* score, clip, compile, QA, each stage starting after the previous one    *)
(* has returned and working on its output; when ingest finds no videos the *)
(* run returns without starting a later stage.  Stated on the end of a     *)
(* run: the program never ends before the ingest stage has run, a later    *)
(* stage has worked only on the videos ingest returned, and a run that     *)
(* found no videos ends with every later stage untouched.                  *)
(***************************************************************************)
\* the program has stopped: by an exception or by the return of run_pipeline
RunEnded ==
    pc \in {"import_error", "no_videos", "failed", "clip_failed", "done"}

\* no stage after ingest has started
LaterStagesUntouched ==
    /\ transcripts = <<>>
    /\ all_moments = <<>>
    /\ top_moments = <<>>
    /\ cl_log = <<>>
    /\ digest = NoVideo
    /\ metadata = NoMetadata
    /\ qa_report = NoQaResults

C23_StagesInOrder ==
    /\ RunEnded => in_pc = "returned"
    /\ ~LaterStagesUntouched => in_pc = "returned" /\ Len(in_new_videos) > 0
    /\ pc = "no_videos" => Len(in_new_videos) = 0 /\ LaterStagesUntouched
    /\ pc = "done" =>
          /\ Len(all_moments) = Len(transcripts)
          /\ Len(cl_log) = Len(top_moments)
          /\ metadata.clip_count = Len(processed_clips)
          /\ qa_report = run_qa_checks(processed_clips, digest)


(***************************************************************************)
(* C24: after download_and_process_clips has returned, for every clip of   *)
(* the returned list the final clip file exists at clip_path and the raw   *)
(* file downloaded for it has been deleted.                                *)
(***************************************************************************)
\* download_and_process_clips has returned
ClipsStageReturned == pc \in {"compile", "metadata", "qa", "done"}

C24_FinalExistsRawDeleted ==
    ClipsStageReturned =>
        \A k \in 1..Len(processed_clips) :
            LET i == processed_clips[k]["clip_index"] IN
            /\ i \in 1..Len(cl_log)
            /\ processed_clips[k]["clip_path"]
                  = ClipPath(i, top_moments[i]["video_id"])
            /\ cl_log[i].final \in {"overlaid", "raw"}
            /\ cl_log[i].raw = "deleted"

\* the returned list has a clip whose overlays were rendered and a clip
\* whose final file is the copy of the raw clip
C24_Witness ==
    /\ pc = "compile"
    /\ \E k \in 1..Len(processed_clips) :
          cl_log[processed_clips[k]["clip_index"]].final = "overlaid"
    /\ \E k \in 1..Len(processed_clips) :
          /\ cl_log[processed_clips[k]["clip_index"]].final = "raw"
          /\ cl_log[processed_clips[k]["clip_index"]].raw = "deleted"
    /\ \E i \in 1..Len(cl_log) : cl_log[i].download = "fail"


(***************************************************************************)
(* C25: in the description of generate_metadata every distinct non-empty   *)
(* source_url of the clips has exactly one source line, the lines are in   *)
(* the order in which the URLs first occur, and each line names the team   *)
(* of the first clip that has its URL.                                     *)
(***************************************************************************)
\* the position of the first clip with the URL
FirstClipWithUrl(clips, url) ==
    CHOOSE i \in 1..Len(clips) :
        /\ clips[i]["source_url"] = url
        /\ \A j \in 1..(i - 1) : clips[j]["source_url"] # url

C25_SourceLinesDeduplicated ==
    pc = "qa" =>
        LET lines == metadata.sources
            urls == { processed_clips[i]["source_url"] :
                         i \in 1..Len(processed_clips) } \ {""}
        IN /\ \A u \in urls :
                 Cardinality({k \in 1..Len(lines) : lines[k].url = u}) = 1
           /\ \A k \in 1..Len(lines) : lines[k].url \in urls
           /\ \A a \in 1..Len(lines) : \A b \in 1..Len(lines) :
                 a < b => FirstClipWithUrl(processed_clips, lines[a].url)
                             < FirstClipWithUrl(processed_clips, lines[b].url)
           /\ \A k \in 1..Len(lines) :
                 lines[k].team =
                    processed_clips[FirstClipWithUrl(processed_clips, lines[k].url)]["team"]

\* a URL shared by clips of two teams, and a clip without a URL
C25_Witness ==
    /\ pc = "qa"
    /\ Len(metadata.sources) = 1
    /\ \E i \in 1..Len(processed_clips) : processed_clips[i]["source_url"] = ""
    /\ \E i \in 1..Len(processed_clips) : \E j \in 1..Len(processed_clips) :
          /\ i < j
          /\ processed_clips[i]["source_url"] = processed_clips[j]["source_url"]
          /\ processed_clips[i]["team"] # processed_clips[j]["team"]


(***************************************************************************)
(* C26: every moment emitted by score_all_transcripts has                  *)
(* 0 <= start_seconds < end_seconds, duration = end_seconds - start_seconds *)
(* and 10 <= duration <= 90; for a clip made from it check_timestamps      *)
(* reports no error and check_clip_accuracy reports neither a very short   *)
(* nor a very long clip.                                                   *)
(***************************************************************************)
\* the moment satisfies the conditions the QA stage checks
SatisfiesQaConditions(m) ==
    /\ FloatLessEq(0, m["start_seconds"])
    /\ FloatLess(m["start_seconds"], m["end_seconds"])
    /\ m["duration"] = FloatSub(m["end_seconds"], m["start_seconds"])
    /\ FloatLessEq(10, m["duration"])
    /\ FloatLessEq(m["duration"], 90)
    /\ check_timestamps(<<m>>).passed
    /\ \A w \in 1..Len(check_clip_accuracy(<<m>>).warnings) :
          check_clip_accuracy(<<m>>).warnings[w].text
              \notin {"Very short", "Very long"}

C26_EmittedMomentsSatisfyQaConditions ==
    \A i \in 1..Len(all_moments) :
        \A k \in 1..Len(all_moments[i].moments) :
            SatisfiesQaConditions(all_moments[i].moments[k])


(***************************************************************************)
(* C27: the review summary of a run has ready_to_publish = true only if    *)
(* the digest video was compiled successfully and the digest has at least  *)
(* one clip.                                                               *)
(***************************************************************************)
C27_ReadyOnlyWithCompiledDigest ==
    (pc = "done" /\ review_summary.ready_to_publish) =>
        /\ digest.exists
        /\ Len(processed_clips) >= 1


(***************************************************************************)
(* C28: in every result of run_qa_checks all_passed is false if and only   *)
(* if the errors list is not empty, total_errors is the number of entries  *)
(* of errors and total_warnings the number of entries of warnings.         *)
(***************************************************************************)
C28_AllPassedIffNoErrors ==
    qa_pc = "done" =>
        /\ (qa_results.all_passed = FALSE) <=> (Len(qa_results.errors) > 0)
        /\ qa_results.total_errors = Len(qa_results.errors)
        /\ qa_results.total_warnings = Len(qa_results.warnings)
        /\ \A name \in DOMAIN qa_results.checks :
              ~qa_results.checks[name].passed
                  => Len(qa_results.checks[name].warnings) > 0

\* a result with errors of the video check and of a clip check, and with
\* warnings
C28_Witness ==
    /\ qa_pc = "done"
    /\ QaCheckFailed("video_quality")
    /\ QaCheckFailed("timestamps")
    /\ qa_results.total_errors >= 2
    /\ qa_results.total_warnings >= 1


(***************************************************************************)
(* C29: get_top_moments returns at most max_count moments in the order of  *)
(* non-increasing score; no moment left out has a higher score than a      *)
(* returned one; moments of equal score keep the order in which they were  *)
(* flattened from the lists of the videos.                                 *)
(***************************************************************************)
\* every moment of every video, video after video
AllScoredMoments ==
    Flatten([i \in 1..Len(all_moments) |-> all_moments[i].moments])

\* where the moment stands in the flattened list
FlatPosition(m) ==
    CHOOSE p \in 1..Len(AllScoredMoments) : AllScoredMoments[p] = m

C29_TopMomentsOrdered ==
    pc = "top_done" =>
        LET flat == AllScoredMoments
            top == top_moments
            left_out == { flat[p] : p \in 1..Len(flat) }
                            \ { top[k] : k \in 1..Len(top) }
        IN /\ Len(top) <= max_clips
           /\ Len(top) = IF Len(flat) < max_clips THEN Len(flat) ELSE max_clips
           /\ \A k \in 1..Len(top) : \E p \in 1..Len(flat) : flat[p] = top[k]
           /\ \A k \in 1..Len(top) : \A l \in 1..Len(top) :
                 k < l => /\ top[k]["score"] >= top[l]["score"]
                          /\ top[k] # top[l]
                          /\ top[k]["score"] = top[l]["score"]
                                => FlatPosition(top[k]) < FlatPosition(top[l])
           /\ \A m \in left_out : \A k \in 1..Len(top) :
                 m["score"] <= top[k]["score"]

\* moments of equal score from two videos were returned, a moment between
\* them in the flattened list has a lower score, and a moment was left out
C29_Witness ==
    /\ pc = "top_done"
    /\ Len(top_moments) < Len(AllScoredMoments)
    /\ \E k \in 1..Len(top_moments) : \E l \in 1..Len(top_moments) :
          /\ k < l
          /\ top_moments[k]["score"] = top_moments[l]["score"]
          /\ top_moments[k]["video_id"] # top_moments[l]["video_id"]
          /\ FlatPosition(top_moments[l]) > FlatPosition(top_moments[k]) + 1


(***************************************************************************)
(* C30: parse_vtt_to_segments terminates on every text: every pass of its  *)
(* outer loop moves the line index forward by at least one, also when the  *)
(* text of a cue is ended by a timestamp line that the outer loop then     *)
(* examines again.  Termination is stated by a measure: a natural number   *)
(* that every step of the function makes smaller, so that no run of its    *)
(* loops goes on for ever.                                                 *)
(***************************************************************************)
\* twice the number of lines from the index on, plus one in the outer loop
\* and two in the inner loop; nothing is left to do after the return
LoopMeasure ==
    CASE vt_pc = "outer" -> 2 * (Len(vt_lines) - vt_i) + 1
      [] vt_pc = "inner" -> 2 * (Len(vt_lines) - vt_i) + 2
      [] OTHER -> 0

\* what a step taken inside the function does to the index and the measure
LoopStepAdvances ==
    vt_pc \in {"outer", "inner"} =>
        /\ LoopMeasure' < LoopMeasure
        /\ LoopMeasure' >= 0
        /\ vt_i' >= vt_i
        /\ vt_i' <= Len(vt_lines)
        /\ (vt_pc = "outer" /\ vt_pc' # "done") => vt_i' >= vt_i + 1
        /\ vt_pc' = "inner" => vt_i' >= vt_i + 1

C30_ParseTerminates == [][LoopStepAdvances]_vars

\* the function returned after it had read two cues with text, the inner
\* loop had stopped at a cue line and the outer loop had examined that
\* line again
C30_Witness ==
    /\ vt_pc = "done"
    /\ Len(vt_segments) = 2
    /\ \E k \in 1..Len(vt_lines) :
          /\ timestamp_match(strip(vt_lines[k])) # <<>>
          /\ <<"inner", k - 1>> \in vt_examined
          /\ <<"outer", k - 1>> \in vt_examined


====
